---- MODULE Spec2Model ----
(***************************************************************************)
(* iframe-remote: request/response correlation of ParentCommunicator /     *)
(* ChildCommunicator (src/parent.ts, src/child.ts) and of ParentRPC /      *)
(* ChildRPC (src/rpc.ts).                                                  *)
(*                                                                         *)
(* Two instances, one in the host window ("parent") and one in the         *)
(* embedded frame ("child"), talk over window.postMessage.  A run uses one *)
(* layer on both sides: "comm" (the Communicator classes) or "rpc" (the    *)
(* RPC classes).  The parent and child classes of a layer are line-for-    *)
(* line the same code apart from where the peer window comes from, so one  *)
(* definition parameterised by the side s models both.                     *)
(*                                                                         *)
(* Every operation of the code is a function from a "world" record w       *)
(* (instances, promises, messages in flight, running handlers, effects of  *)
(* the operation) to the world after it; an action applies one public      *)
(* operation or one event-loop task to the current state.                  *)
(***************************************************************************)
EXTENDS Integers, Sequences, FiniteSets, TLC

VARIABLES
  layer,    \* the classes of the run: "comm" or "rpc"
  caller,   \* the side that issues request()/send()/call(); the other registers handlers
  now,      \* the clock, in ms
  nextId,   \* the number of the next call; also the id generateId() gives it
  nmsg,     \* send() invocations so far
  inst,     \* the instance of each side: configuration, listener, pending table, registry
  calls,    \* the promise, timer and signal of each call issued
  net,      \* envelopes posted to a window and not yet taken off the channel
  running,  \* handler invocations that are awaiting
  handled,  \* per id: the handler invoked for it, its arguments and what it produced
  dev,      \* the ChildDevTools of the frame and the namespace (window) it scans
  validation, \* the descriptor given to validateParamMeta and what it returned
  last      \* effects of the last operation

vars == <<layer, caller, now, nextId, nmsg, inst, calls, net, running, handled, dev, validation, last>>

(***************************************************************************)
(* Bounds of the model.                                                    *)
(***************************************************************************)
MaxCalls == 2        \* request()/call()/send() invocations in one run
MaxTick == 1         \* single-millisecond clock steps in one run

(***************************************************************************)
(* Program constants.                                                      *)
(***************************************************************************)
DefaultTimeout == 5000

(***************************************************************************)
(* Value domains.                                                          *)
(***************************************************************************)
Sides == {"parent", "child"}
Layers == {"comm", "rpc"}
UNDEF == "undefined"
Undef == -1                          \* a numeric option that is not given
Payloads == {"p1", "p2", "p3"}
Results == {"r1", "r2"}
Msgs == {"", "boom"}                 \* messages an Error thrown by a handler carries
Methods == {"add", "sub"}
DevMethods ==
  {"__devtools_list", "__devtools_call", "__devtools_refresh", "__devtools_get_config"}
MethodNames == Methods \cup DevMethods    \* the names a registry is keyed by in a run
Names == {"__a", "__b", "plain"}          \* names of globals the frame's scripts define
NameRests == {"a", "b", "c"}              \* what follows '__' in a name
Functions == {"f1", "f2"}                 \* function objects of the frame's document
HandlerIds == {"h1", "h2"}
ArgLists == {<<"a", "b">>, <<"b", "a">>, <<"a">>}
TimeoutArgs == {Undef, 1}            \* the per-call timeout argument
Ids == 1..MaxCalls

\* The code never looks into a payload or an argument list, so the c-th call
\* of a run carries the c-th payload / argument list: any two calls differ.
payloadOf(c) == CASE c = 1 -> "p1" [] c = 2 -> "p2" [] OTHER -> "p3"
argsOf(c) == CASE c = 1 -> <<"a", "b">> [] c = 2 -> <<"b", "a">> [] OTHER -> <<"a">>

\* Nor does it look into what a handler returns: the handler serving the
\* envelope with id i returns the i-th result.
resultOf(i) == IF i = 2 THEN "r2" ELSE "r1"

peer(s) == IF s = "parent" THEN "child" ELSE "parent"

\* The origin a window's document is served from.
originOf(win) ==
  CASE win = "parent" -> "https://host"
    [] win = "child" -> "https://frame"
    [] OTHER -> "https://evil"

(***************************************************************************)
(* Settled values of a promise: nothing yet, a fulfilment value, or an     *)
(* Error / RPCError with its name, message and code.                       *)
(***************************************************************************)
NoValue == [tag |-> "none", v |-> UNDEF, name |-> UNDEF, message |-> UNDEF, code |-> UNDEF]
Value(v) == [tag |-> "value", v |-> v, name |-> UNDEF, message |-> UNDEF, code |-> UNDEF]
Error(message) ==
  [tag |-> "error", v |-> UNDEF, name |-> "Error", message |-> message, code |-> UNDEF]

\* Variant: an RPCError that drops the code it is given (C34 fails with it).
RPCErrorUncoded(message, code) ==
  [tag |-> "error", v |-> UNDEF, name |-> "RPCError", message |-> message, code |-> UNDEF]

RPCError(message, code) ==
  [tag |-> "error", v |-> UNDEF, name |-> "RPCError", message |-> message, code |-> code]

(***************************************************************************)
(* Envelopes (the data of a MessageEvent) and MessageEvents.               *)
(***************************************************************************)
Envelope(type, id, payload, method, args, success, result, error, seq) ==
  [type |-> type, id |-> id, payload |-> payload, method |-> method, args |-> args,
   success |-> success, result |-> result, error |-> error, seq |-> seq]

NoEnvelope == Envelope("none", 0, UNDEF, UNDEF, <<>>, FALSE, UNDEF, UNDEF, 0)
MessageEvent(origin, source, data) == [origin |-> origin, source |-> source, data |-> data]

(***************************************************************************)
(* What a handler invocation can do: return (or resolve to) a value, throw *)
(* (or reject with) an Error carrying a message, or throw a non-Error.     *)
(***************************************************************************)
Outcomes ==
  [kind : {"return"}, v : Results, message : {UNDEF}]
    \cup [kind : {"throwError"}, v : {UNDEF}, message : Msgs]
    \cup [kind : {"throwOther"}, v : {UNDEF}, message : {UNDEF}]

NoOutcome == [kind |-> "none", v |-> UNDEF, message |-> UNDEF]
NoHandled == [h |-> "none", args |-> <<>>, out |-> NoOutcome]

(***************************************************************************)
(* The promise returned by request()/callWithOptions() together with the   *)
(* timer and the AbortSignal of that invocation.  cause and settledAt are  *)
(* history: which path settled the promise first, and when; timeout is the *)
(* timeout argument (or option) the invocation was given.                  *)
(***************************************************************************)
NoCall ==
  [owner |-> "none", id |-> 0, state |-> "none", value |-> NoValue,
   timer |-> FALSE, issuedAt |-> 0, dur |-> 0, timeout |-> Undef, signal |-> "none",
   payload |-> UNDEF, method |-> UNDEF, args |-> <<>>,
   cause |-> "none", settledAt |-> 0]

(***************************************************************************)
(* Effects of the last operation: callbacks invoked, envelopes handed to   *)
(* postMessage, exceptions that escaped to the caller or the event loop.   *)
(* op tells a delivery ("deliver"), a foreign event ("inject") and an       *)
(* envelope of the other classes ("overhear") from every other operation   *)
(* ("none"); to is the receiving side, type and id                         *)
(* (thrown is the error an uncaught exception carried)                     *)
(* are those of the envelope, origin and source those of a foreign event.  *)
(***************************************************************************)
NoFx ==
  [op |-> "none", to |-> "none", type |-> "none", id |-> 0,
   origin |-> UNDEF, source |-> "none",
   onMessage |-> <<>>, handlerCalls |-> <<>>, onError |-> <<>>, sent |-> <<>>,
   uncaught |-> FALSE, thrown |-> NoValue]

(***************************************************************************)
(* The ChildDevTools instance of the frame: window is the namespace it     *)
(* scans (per name: no property, a value that is not a function, or a      *)
(* function), exposedFunctions its snapshot (per name: a function or no    *)
(* entry), functionPattern the option of that name (not given, or the      *)
(* RegExp /^__/g) and lastIndex the property of that RegExp object.        *)
(* looked, target and returned are history, per id of the         *)
(* rpc-call served: the function callFunction found and invoked, what that *)
(* function did, what listFunctions returned.                              *)
(***************************************************************************)
NoDevTools ==
  [window |-> [n \in Names |-> "absent"],
   exposedFunctions |-> [n \in Names |-> "none"],
   functionPattern |-> UNDEF, lastIndex |-> 0,
   looked |-> [i \in 0..MaxCalls |-> "none"],
   target |-> [i \in 0..MaxCalls |-> NoOutcome],
   returned |-> [i \in 0..MaxCalls |-> UNDEF]]

(***************************************************************************)
(* Parameter descriptors given to validateParamMeta.  A numeric property   *)
(* that may be missing is the set of its values: empty when the descriptor *)
(* has no such property.                                                   *)
(***************************************************************************)
Nums == {-1, 0, 1, 100}
OptionalNums == {{}} \cup {{n} : n \in Nums}
ParamMetas ==
  [name : {"", "volume"}, type : {"number", "range"},
   min : OptionalNums, max : OptionalNums, step : {{}, {0}, {5}}]

NoParamMeta == [name |-> UNDEF, type |-> UNDEF, min |-> {}, max |-> {}, step |-> {}]
NoValidation ==
  [param |-> NoParamMeta,
   result |-> [success |-> FALSE, data |-> NoParamMeta, errors |-> FALSE, returned |-> FALSE]]

World(op) ==
  [inst |-> inst, calls |-> calls, net |-> net, running |-> running,
   handled |-> handled, dev |-> dev, validation |-> validation,
   fx |-> [NoFx EXCEPT !.op = op]]

Commit(w) ==
  /\ inst' = w.inst
  /\ calls' = w.calls
  /\ net' = w.net
  /\ running' = w.running
  /\ handled' = w.handled
  /\ dev' = w.dev
  /\ validation' = w.validation
  /\ last' = w.fx

(***************************************************************************)
(* Options given to the two constructors of a run; both sides get the same *)
(* shape of options.                                                       *)
(***************************************************************************)
Options ==
  {[targetOrigin |-> UNDEF, timeout |-> Undef, onRequest |-> TRUE],
   [targetOrigin |-> "*", timeout |-> Undef, onRequest |-> TRUE],
   [targetOrigin |-> "exact", timeout |-> 3, onRequest |-> FALSE]}

\* this.targetOrigin = options.targetOrigin || '*'
targetOriginOf(s, options) ==
  IF options.targetOrigin = UNDEF THEN "*"
  ELSE IF options.targetOrigin = "exact" THEN originOf(peer(s))
  ELSE options.targetOrigin

\* this.options = { timeout: 5000, debug: false, ...options }
optionsOf(options) ==
  [timeout |-> IF options.timeout = Undef THEN DefaultTimeout ELSE options.timeout,
   onRequest |-> options.onRequest]

\* new ParentCommunicator(targetWindow, options) / new ChildCommunicator(options);
\* given is history: the timeout option the constructor was called with.
Communicator(s, options) ==
  [targetWindow |-> peer(s),
   targetOrigin |-> targetOriginOf(s, options),
   options |-> optionsOf(options),
   given |-> options.timeout,
   listening |-> TRUE,
   pending |-> [id \in Ids |-> 0],
   handlers |-> [m \in MethodNames |-> "none"]]

\* new ParentRPC(targetWindow, options) / new ChildRPC(options): of the
\* options only targetOrigin is kept (and onMessage, by the listener).
RPC(s, options) ==
  [targetWindow |-> peer(s),
   targetOrigin |-> targetOriginOf(s, options),
   options |-> [timeout |-> Undef, onRequest |-> FALSE],
   given |-> options.timeout,
   listening |-> TRUE,
   pending |-> [id \in Ids |-> 0],
   handlers |-> [m \in MethodNames |-> "none"]]

Falsy(n) == n = Undef \/ n = 0

\* The windows window.parent of the frame's document can be: the host window
\* (the document is embedded), absent, or the window itself (a top-level
\* document).
WindowParents == {"parent", "none", "child"}

\* No instance: the child side of a window whose document has constructed
\* nothing yet; windowParent is window.parent of that window.
NotConstructed(windowParent) ==
  [targetWindow |-> "none", targetOrigin |-> UNDEF,
   options |-> [timeout |-> Undef, onRequest |-> FALSE], given |-> Undef,
   listening |-> FALSE,
   pending |-> [id \in Ids |-> 0],
   handlers |-> [m \in MethodNames |-> "none"],
   windowParent |-> windowParent]

Constructed(instance) == "windowParent" \notin DOMAIN instance

\* Variant: a constructor without the iframe check (C23 fails with it).
ChildConstructorUnchecked(w, options) ==
  [w EXCEPT !.inst["child"] =
     IF layer = "comm" THEN Communicator("child", options) ELSE RPC("child", options)]

\* new ChildCommunicator(options) / new ChildRPC(options) in the frame's
\* window: throws unless window.parent is another window.
ChildConstructor(w, options) ==
  LET windowParent == w.inst["child"].windowParent
  IN IF windowParent = "none" \/ windowParent = "child"
     THEN [w EXCEPT !.fx.uncaught = TRUE,
                    !.fx.thrown =
                       Error(IF layer = "comm"
                             THEN "ChildCommunicator must be used inside an iframe"
                             ELSE "ChildRPC must be used inside an iframe")]
     ELSE [w EXCEPT !.inst["child"] =
             IF layer = "comm" THEN Communicator("child", options)
             ELSE RPC("child", options)]

(***************************************************************************)
(* Language and platform primitives the classes are built on.              *)
(***************************************************************************)

\* resolve(value) of `new Promise((resolve, reject) => ...)`: the first
\* resolve/reject settles the promise, every later one does nothing.
resolve(w, c, cause, v) ==
  IF w.calls[c].state = "pending"
  THEN [w EXCEPT !.calls[c].state = "fulfilled", !.calls[c].value = Value(v),
                 !.calls[c].cause = cause, !.calls[c].settledAt = now]
  ELSE w

\* Variant: a reject that overwrites a settled promise (C1 fails with it).
rejectSettled(w, c, cause, err) ==
  [w EXCEPT !.calls[c].state = "rejected", !.calls[c].value = err,
            !.calls[c].cause = cause, !.calls[c].settledAt = now]

\* reject(reason) of the same promise.
reject(w, c, cause, err) ==
  IF w.calls[c].state = "pending"
  THEN [w EXCEPT !.calls[c].state = "rejected", !.calls[c].value = err,
                 !.calls[c].cause = cause, !.calls[c].settledAt = now]
  ELSE w

\* setTimeout(callback, ms): the callback of call c runs once, ms after now.
setTimeout(w, c, ms) ==
  [w EXCEPT !.calls[c].timer = TRUE, !.calls[c].issuedAt = now, !.calls[c].dur = ms]

\* clearTimeout(handle): the callback of call c will not run.
clearTimeout(w, c) == [w EXCEPT !.calls[c].timer = FALSE]

\* window.postMessage(message, targetOrigin) that does not throw: the browser
\* queues a MessageEvent for the target window when its origin matches.
deliver(w, s, message) ==
  IF w.inst[s].targetOrigin = "*" \/ w.inst[s].targetOrigin = originOf(w.inst[s].targetWindow)
  THEN [w EXCEPT !.net = @ \cup {[to |-> w.inst[s].targetWindow, data |-> message]},
                 !.fx.sent = Append(@, message)]
  ELSE [w EXCEPT !.fx.sent = Append(@, message)]

\* Date.now() + Math.random(): the id of the next call.  The random suffix
\* is taken not to repeat among the calls of one run.
generateId == nextId

(***************************************************************************)
(* ParentCommunicator / ChildCommunicator.                                 *)
(***************************************************************************)

\* handleError: this.options.onError?.(error)
handleError(w, s, error) == [w EXCEPT !.fx.onError = Append(@, error)]

\* Variant: a postMessage without the try block: what the transport throws
\* reaches the caller (C32 fails with it).
postMessageUncaught(w, s, message, fail) ==
  IF fail THEN [w EXCEPT !.fx.uncaught = TRUE, !.fx.thrown = Error("postMessage failed")]
  ELSE deliver(w, s, message)

\* postMessage: try { targetWindow.postMessage(...) } catch { handleError }
postMessage(w, s, message, fail) ==
  IF fail THEN handleError(w, s, Error("postMessage failed"))
  ELSE deliver(w, s, message)

\* timeout || this.options.timeout || 5000
requestTimeoutMs(w, s, timeout) ==
  IF ~Falsy(timeout) THEN timeout
  ELSE IF ~Falsy(w.inst[s].options.timeout) THEN w.inst[s].options.timeout
  ELSE DefaultTimeout

\* Variant: a request() that refuses once the instance is destroyed (C37
\* fails with it).
requestRefusedAfterDestroy(w, s, c, id, payload, timeout, fail) ==
  IF w.inst[s].listening
  THEN postMessage(
         [setTimeout([w EXCEPT !.calls[c] =
                        [NoCall EXCEPT !.owner = s, !.id = id, !.state = "pending",
                                       !.payload = payload, !.timeout = timeout]],
                     c, requestTimeoutMs(w, s, timeout))
            EXCEPT !.inst[s].pending[id] = c],
         s, Envelope("request", id, payload, UNDEF, <<>>, FALSE, UNDEF, UNDEF, 0), fail)
  ELSE [w EXCEPT !.calls[c] =
          [NoCall EXCEPT !.owner = s, !.id = id, !.state = "rejected",
                         !.payload = payload, !.timeout = timeout,
                         !.cause = "destroy",
                         !.value = Error("Communicator destroyed")]]

\* request(payload, timeout) once generateId() has returned id: call c is
\* the promise this invocation returns.
requestWithId(w, s, c, id, payload, timeout, fail) ==
  LET timeoutMs == requestTimeoutMs(w, s, timeout)
      w0 == [w EXCEPT !.calls[c] =
               [NoCall EXCEPT !.owner = s, !.id = id, !.state = "pending",
                              !.payload = payload, !.timeout = timeout]]
      w1 == setTimeout(w0, c, timeoutMs)
      w2 == [w1 EXCEPT !.inst[s].pending[id] = c]
  IN postMessage(w2, s,
       Envelope("request", id, payload, UNDEF, <<>>, FALSE, UNDEF, UNDEF, 0), fail)

\* request(payload, timeout)
request(w, s, c, payload, timeout, fail) ==
  requestWithId(w, s, c, generateId, payload, timeout, fail)

\* send(payload)
send(w, s, payload, fail) ==
  postMessage(w, s,
    Envelope("message", 0, payload, UNDEF, <<>>, FALSE, UNDEF, UNDEF, nmsg + 1), fail)

\* Variant: a timeout callback that forgets to reject (C2 fails with it).
requestTimeoutCallbackSilent(w, c) ==
  [w EXCEPT !.calls[c].timer = FALSE, !.inst[w.calls[c].owner].pending[w.calls[c].id] = 0]

\* The setTimeout callback of request().
requestTimeoutCallback(w, c) ==
  LET s == w.calls[c].owner
      id == w.calls[c].id
      w1 == [w EXCEPT !.calls[c].timer = FALSE, !.inst[s].pending[id] = 0]
  IN reject(w1, c, "timeout", Error("Request timeout"))

(***************************************************************************)
(* ParentRPC / ChildRPC.                                                   *)
(***************************************************************************)

\* options.timeout || 5000
callTimeoutMs(options) ==
  IF ~Falsy(options.timeout) THEN options.timeout ELSE DefaultTimeout

\* Variant: a callWithOptions that keys every table entry by the same id
\* (C22 fails with it).
callWithOneKey(w, s, c, id, method, options, args, fail) ==
  LET w0 == [w EXCEPT !.calls[c] =
               [NoCall EXCEPT !.owner = s, !.id = id, !.state = "pending",
                              !.method = method, !.args = args,
                              !.timeout = options.timeout, !.signal = options.signal]]
      w1 == setTimeout(w0, c, callTimeoutMs(options))
  IN deliver([w1 EXCEPT !.inst[s].pending[1] = c], s,
             Envelope("rpc-call", id, UNDEF, method, args, FALSE, UNDEF, UNDEF, 0))

\* callWithOptions(method, options, ...args) once generateId() has returned
\* id.
callWithId(w, s, c, id, method, options, args, fail) ==
  LET timeout == callTimeoutMs(options)
      w0 == [w EXCEPT !.calls[c] =
               [NoCall EXCEPT !.owner = s, !.id = id, !.state = "pending",
                              !.method = method, !.args = args,
                              !.timeout = options.timeout, !.signal = options.signal]]
      w1 == setTimeout(w0, c, timeout)
      w2 == [w1 EXCEPT !.inst[s].pending[id] = c]
      message == Envelope("rpc-call", id, UNDEF, method, args, FALSE, UNDEF, UNDEF, 0)
  IN IF fail
     THEN \* the throw inside the executor rejects the promise
          reject(w2, c, "send",
                 RPCError("Failed to send RPC call: postMessage failed", "SEND_ERROR"))
     ELSE deliver(w2, s, message)

\* Variant: a callWithOptions that looks at signal.aborted first and rejects
\* without posting (C39 fails with it).
callWithAbortedCheck(w, s, c, method, options, args, fail) ==
  IF options.signal = "aborted"
  THEN [w EXCEPT !.calls[c] =
          [NoCall EXCEPT !.owner = s, !.id = generateId, !.state = "rejected",
                         !.method = method, !.args = args,
                         !.timeout = options.timeout, !.signal = options.signal,
                         !.cause = "abort",
                         !.value = RPCError("RPC call aborted", "ABORTED")]]
  ELSE callWithId(w, s, c, generateId, method, options, args, fail)

\* callWithOptions(method, options, ...args); call(method, ...args) is
\* callWithOptions(method, {}, ...args).
callWithOptions(w, s, c, method, options, args, fail) ==
  callWithId(w, s, c, generateId, method, options, args, fail)

\* Variant: a timeout callback that leaves the table entry (C7 fails with it).
callTimeoutCallbackKeeping(w, c) ==
  reject([w EXCEPT !.calls[c].timer = FALSE], c, "timeout",
         RPCError("RPC call timeout", "TIMEOUT"))

\* The setTimeout callback of callWithOptions().
callTimeoutCallback(w, c) ==
  LET s == w.calls[c].owner
      id == w.calls[c].id
      w1 == [w EXCEPT !.calls[c].timer = FALSE, !.inst[s].pending[id] = 0]
  IN reject(w1, c, "timeout", RPCError("RPC call timeout", "TIMEOUT"))

\* Variant: an abort listener that rejects but leaves the timer and the
\* table entry (C12 fails with it).
abortListenerRejectOnly(w, c) ==
  reject(w, c, "abort", RPCError("RPC call aborted", "ABORTED"))

\* The 'abort' listener callWithOptions() adds to options.signal.
abortListener(w, c) ==
  LET s == w.calls[c].owner
      id == w.calls[c].id
      w1 == clearTimeout(w, c)
      w2 == [w1 EXCEPT !.inst[s].pending[id] = 0]
  IN reject(w2, c, "abort", RPCError("RPC call aborted", "ABORTED"))

(***************************************************************************)
(* Inbound side of ParentCommunicator / ChildCommunicator.                 *)
(***************************************************************************)

\* Variant: a lookup that ignores the id and takes the oldest entry (C3
\* fails with it).
getOldest(w, s, id) ==
  IF \E i \in Ids : w.inst[s].pending[i] # 0
  THEN w.inst[s].pending[CHOOSE i \in Ids :
         w.inst[s].pending[i] # 0 /\ \A j \in Ids : w.inst[s].pending[j] # 0 => i <= j]
  ELSE 0

\* Map.get(id) on the pending table: the call whose resolve/reject/timeout
\* the entry holds, 0 when there is no entry.
get(w, s, id) == IF id \in Ids THEN w.inst[s].pending[id] ELSE 0

\* Map.delete(id) on the pending table.
delete(w, s, id) == IF id \in Ids THEN [w EXCEPT !.inst[s].pending[id] = 0] ELSE w

\* Variant: a sendResponse that posts nothing once the instance is destroyed
\* (C38 fails with it).
sendResponseWhileListening(w, s, id, success, payload, error, fail) ==
  IF w.inst[s].listening
  THEN postMessage(w, s,
         Envelope("response", id, payload, UNDEF, <<>>, success, UNDEF, error, 0), fail)
  ELSE w

\* sendResponse(id, success, payload, error)
sendResponse(w, s, id, success, payload, error, fail) ==
  postMessage(w, s,
    Envelope("response", id, payload, UNDEF, <<>>, success, UNDEF, error, 0), fail)

\* Variant: a failure response always rejects with the generic message (C6
\* fails with it).
handleResponseGeneric(w, s, response) ==
  LET c == get(w, s, response.id)
  IN IF c = 0 THEN w
     ELSE LET w2 == delete(clearTimeout(w, c), s, response.id)
          IN IF response.success
             THEN resolve(w2, c, "response", response.payload)
             ELSE reject(w2, c, "response", Error("Request failed"))

\* handleResponse(response)
handleResponse(w, s, response) ==
  LET c == get(w, s, response.id)
  IN IF c = 0 THEN w
     ELSE LET w1 == clearTimeout(w, c)
              w2 == delete(w1, s, response.id)
          IN IF response.success
             THEN resolve(w2, c, "response", response.payload)
             ELSE reject(w2, c, "response",
                         Error(IF response.error \in {UNDEF, ""}
                               THEN "Request failed" ELSE response.error))

\* Variant: a handleRequest that drops the request when onRequest is missing
\* (C15 fails with it).
handleRequestIfConfigured(w, s, req, fail) ==
  IF ~w.inst[s].options.onRequest THEN w
  ELSE [w EXCEPT
          !.running = @ \cup {[side |-> s, id |-> req.id, h |-> "onRequest",
                               args |-> <<req.payload>>]},
          !.handled[req.id] =
             [h |-> "onRequest", args |-> <<req.payload>>, out |-> NoOutcome],
          !.fx.handlerCalls = Append(@, [h |-> "onRequest", args |-> <<req.payload>>])]

\* handleRequest(request) up to its await: without onRequest the failure
\* response is sent at once, otherwise onRequest is invoked with the payload.
handleRequest(w, s, req, fail) ==
  IF ~w.inst[s].options.onRequest
  THEN sendResponse(w, s, req.id, FALSE, UNDEF, "No request handler configured", fail)
  ELSE [w EXCEPT
          !.running = @ \cup {[side |-> s, id |-> req.id, h |-> "onRequest",
                               args |-> <<req.payload>>]},
          !.handled[req.id] =
             [h |-> "onRequest", args |-> <<req.payload>>, out |-> NoOutcome],
          !.fx.handlerCalls = Append(@, [h |-> "onRequest", args |-> <<req.payload>>])]

\* Variant: a resume that answers every request with a failure (C4 fails
\* with it).
handleRequestResumeFailing(w, r, out, fail) ==
  sendResponse([w EXCEPT !.running = @ \ {r}, !.handled[r.id].out = out],
               r.side, r.id, FALSE, UNDEF, "Unknown error", fail)

\* handleRequest(request) after its await: r is the suspended invocation,
\* out what onRequest returned or threw.
handleRequestResume(w, r, out, fail) ==
  LET w1 == [w EXCEPT !.running = @ \ {r}, !.handled[r.id].out = out]
  IN CASE out.kind = "return" -> sendResponse(w1, r.side, r.id, TRUE, out.v, UNDEF, fail)
       [] out.kind = "throwError" ->
            sendResponse(w1, r.side, r.id, FALSE, UNDEF, out.message, fail)
       [] OTHER -> sendResponse(w1, r.side, r.id, FALSE, UNDEF, "Unknown error", fail)

\* Variant: a handleMessage that hands onMessage the envelope instead of its
\* payload (C16 fails with it).
handleMessageWholeEnvelope(w, s, data, fail) ==
  IF data.type = "response" THEN handleResponse(w, s, data)
  ELSE IF data.type = "request" THEN handleRequest(w, s, data, fail)
  ELSE [w EXCEPT !.fx.onMessage = Append(@, [arg |-> "data", data |-> data])]

\* handleMessage(data): nothing in the try block throws for the envelopes
\* modelled, so the catch branch is not taken.
handleMessage(w, s, data, fail) ==
  IF data.type = "response" THEN handleResponse(w, s, data)
  ELSE IF data.type = "request" THEN handleRequest(w, s, data, fail)
  ELSE [w EXCEPT !.fx.onMessage = Append(@, [arg |-> "payload", data |-> data])]

\* Variant: a listener without the origin check (C9 fails with it).
messageHandlerAnyOrigin(w, s, event, fail) ==
  IF event.source # w.inst[s].targetWindow THEN w
  ELSE handleMessage(w, s, event.data, fail)

\* The listener setupMessageListener() installs.
messageHandler(w, s, event, fail) ==
  IF w.inst[s].targetOrigin # "*" /\ event.origin # w.inst[s].targetOrigin THEN w
  ELSE IF event.source # w.inst[s].targetWindow THEN w
  ELSE handleMessage(w, s, event.data, fail)

\* pendingRequests.forEach(pending => { clearTimeout; reject }) in insertion
\* order, which is the order of the ids.
RECURSIVE forEachPending(_, _, _, _)
forEachPending(w, s, ids, err) ==
  IF ids = {} THEN w
  ELSE LET id == CHOOSE i \in ids : \A j \in ids : i <= j
           c == get(w, s, id)
       IN forEachPending(reject(clearTimeout(w, c), c, "destroy", err), s, ids \ {id}, err)

\* Variant: a destroy that drops the table without rejecting (C8 fails with
\* it).
destroyDropping(w, s) ==
  [w EXCEPT !.inst[s].listening = FALSE, !.inst[s].pending = [id \in Ids |-> 0]]

\* destroy()
destroy(w, s) ==
  LET w1 == IF w.inst[s].listening THEN [w EXCEPT !.inst[s].listening = FALSE] ELSE w
      w2 == forEachPending(w1, s, {id \in Ids : get(w1, s, id) # 0},
                           Error("Communicator destroyed"))
  IN [w2 EXCEPT !.inst[s].pending = [id \in Ids |-> 0]]

(***************************************************************************)
(* Inbound side of ParentRPC / ChildRPC.                                   *)
(***************************************************************************)

\* sendResponse(id, success, result, error): a postMessage failure is only
\* written to the console.
rpcSendResponse(w, s, id, success, result, error, fail) ==
  IF fail THEN w
  ELSE deliver(w, s,
         Envelope("rpc-response", id, UNDEF, UNDEF, <<>>, success, result, error, 0))

\* Variant: a failure response rejects with whatever error text it carries
\* (C33 fails with it).
rpcHandleResponseVerbatim(w, s, response) ==
  LET c == get(w, s, response.id)
  IN IF c = 0 THEN w
     ELSE LET w2 == delete(clearTimeout(w, c), s, response.id)
          IN IF response.success
             THEN resolve(w2, c, "response", response.result)
             ELSE reject(w2, c, "response", RPCError(response.error, UNDEF))

\* handleResponse(response)
rpcHandleResponse(w, s, response) ==
  LET c == get(w, s, response.id)
  IN IF c = 0 THEN w
     ELSE LET w1 == clearTimeout(w, c)
              w2 == delete(w1, s, response.id)
          IN IF response.success
             THEN resolve(w2, c, "response", response.result)
             ELSE reject(w2, c, "response",
                         RPCError(IF response.error \in {UNDEF, ""}
                                  THEN "RPC call failed" ELSE response.error, UNDEF))

(***************************************************************************)
(* ChildDevTools: the snapshot of the frame's functions and the handlers   *)
(* it registers on its ChildRPC.                                           *)
(***************************************************************************)

\* The patterns a ChildDevTools of a run is given: none, or a RegExp with
\* the global flag.
FunctionPatterns == {UNDEF, "/^__/g"}

\* Does name begin with '__'?
startsWithPrefix(name) == \E rest \in NameRests : name = "__" \o rest

\* RegExp.prototype.test(name) as matchesPattern() calls it: the outcome and
\* the lastIndex it leaves.  /^__/ has no state.  /^__/g searches from
\* lastIndex, where ^ matches only at 0, sets lastIndex behind a match and
\* resets it after a failure.
test(functionPattern, lastIndex, name) ==
  IF functionPattern = "/^__/g"
  THEN IF lastIndex = 0 /\ startsWithPrefix(name)
       THEN [result |-> TRUE, lastIndex |-> 2]
       ELSE [result |-> FALSE, lastIndex |-> 0]
  ELSE [result |-> startsWithPrefix(name), lastIndex |-> lastIndex]

\* matchesPattern(name): its outcome, and the world it leaves.
matchesPattern(w, name) == test(w.dev.functionPattern, w.dev.lastIndex, name).result
afterMatchesPattern(w, name) ==
  [w EXCEPT !.dev.lastIndex = test(w.dev.functionPattern, w.dev.lastIndex, name).lastIndex]

\* The order in which the property names of the window are visited: first
\* those of the built-in functions of a window (alert, ...), then those of
\* the globals of the page.
BuiltIn == "alert"
NameOrder == <<"__a", "__b", "plain">>

\* The loop of scanWindowFunctions() from the i-th property name on: the
\* pattern is tried on the names of functions only.
RECURSIVE scanKeys(_, _, _)
scanKeys(w, i, functions) ==
  IF i > Len(NameOrder) THEN [functions |-> functions, lastIndex |-> w.dev.lastIndex]
  ELSE LET key == NameOrder[i]
           value == w.dev.window[key]
       IN IF value \in Functions
          THEN scanKeys(afterMatchesPattern(w, key), i + 1,
                        IF matchesPattern(w, key) THEN [functions EXCEPT ![key] = value]
                        ELSE functions)
          ELSE scanKeys(w, i + 1, functions)

\* Variant: a scan that fills the existing Map instead of a fresh one, so the
\* entries of the previous snapshot stay (C27 fails with it).
scanWindowFunctionsInPlace(w) ==
  scanKeys(afterMatchesPattern(w, BuiltIn), 1, w.dev.exposedFunctions).functions

\* The loop of scanWindowFunctions() over all property names, from an empty
\* Map.
scanAll(w) == scanKeys(afterMatchesPattern(w, BuiltIn), 1, [n \in Names |-> "none"])

\* scanWindowFunctions(): a fresh Map of the window's properties that are
\* functions and whose name matches the pattern.
scanWindowFunctions(w) == scanAll(w).functions

\* One FunctionInfo of listFunctions(): the name and the description of the
\* function object (its type, parameters and source text), written as text.
FunctionInfo(name, fn) == name \o ":" \o fn \o ";"

RECURSIVE infoList(_, _)
infoList(snapshot, i) ==
  IF i > Len(NameOrder) THEN ""
  ELSE (IF snapshot[NameOrder[i]] = "none" THEN ""
        ELSE FunctionInfo(NameOrder[i], snapshot[NameOrder[i]]))
       \o infoList(snapshot, i + 1)

\* listFunctions(): the FunctionInfo of every entry of the snapshot.
listFunctions(w) == infoList(w.dev.exposedFunctions, 1)

\* refreshFunctions() up to its return: the snapshot is replaced by a scan.
refreshFunctions(w) ==
  [w EXCEPT !.dev.exposedFunctions = scanWindowFunctions(w),
            !.dev.lastIndex = scanAll(w).lastIndex]

\* this.exposedFunctions.get(name) of callFunction()
exposedGet(w, name) == IF name \in Names THEN w.dev.exposedFunctions[name] ELSE "none"

\* Variant: an expose that adds only names matching the pattern (C29 fails
\* with it).
exposeMatching(w, name, fn) ==
  IF matchesPattern(w, name)
  THEN [afterMatchesPattern(w, name) EXCEPT
          !.dev.exposedFunctions[name] = fn, !.dev.window[name] = fn]
  ELSE afterMatchesPattern(w, name)

\* expose(name, fn): the pattern is tried on the name for the warning only.
expose(w, name, fn) ==
  [afterMatchesPattern(w, name) EXCEPT
     !.dev.exposedFunctions[name] = fn, !.dev.window[name] = fn]

\* The handlers the constructor of ChildDevTools registers, by method.
DevHandlers ==
  [m \in DevMethods |->
     CASE m = "__devtools_list" -> "listFunctions"
       [] m = "__devtools_call" -> "callFunction"
       [] m = "__devtools_refresh" -> "refreshFunctions"
       [] OTHER -> "getConfig"]

\* handler(...call.args) of handleCall() up to the handler's first await or
\* its return.  The handlers of ChildDevTools read or replace the snapshot
\* here; callFunction looks its target up and invokes it.
invoke(w, call, handler) ==
  CASE handler = "listFunctions" -> [w EXCEPT !.dev.returned[call.id] = listFunctions(w)]
    [] handler = "refreshFunctions" ->
         LET w1 == refreshFunctions(w)
         IN [w1 EXCEPT !.dev.returned[call.id] = listFunctions(w1)]
    [] handler = "getConfig" -> [w EXCEPT !.dev.returned[call.id] = "config"]
    [] handler = "callFunction" ->
         [w EXCEPT !.dev.looked[call.id] =
                      IF call.args = <<>> THEN "none" ELSE exposedGet(w, call.args[1])]
    [] OTHER -> w

\* String(error) of a thrown value that is no Error: the targets of a run
\* throw the string 'oops'.
ThrownText == "oops"

\* Variant: a callFunction that lets the target's error through unwrapped
\* (C28 fails with it).
callFunctionOutcomeUnwrapped(name, fn, target) ==
  IF fn = "none"
  THEN [kind |-> "throwError", v |-> UNDEF, message |-> "Function not found: " \o name]
  ELSE target

\* What the promise of callFunction(name, args) settles with, given the
\* function found under name and what the function did.
callFunctionOutcome(name, fn, target) ==
  IF fn = "none"
  THEN [kind |-> "throwError", v |-> UNDEF, message |-> "Function not found: " \o name]
  ELSE CASE target.kind = "return" -> target
         [] target.kind = "throwError" ->
              [kind |-> "throwError", v |-> UNDEF,
               message |-> "Error calling " \o name \o ": " \o target.message]
         [] OTHER ->
              [kind |-> "throwError", v |-> UNDEF,
               message |-> "Error calling " \o name \o ": " \o ThrownText]

\* Variant: a dispatch that drops the first argument (C5 fails with it).
handleCallShifted(w, s, call, fail) ==
  LET handler == IF call.method \in MethodNames THEN w.inst[s].handlers[call.method] ELSE "none"
  IN IF handler = "none"
     THEN rpcSendResponse(w, s, call.id, FALSE, UNDEF,
                          "Method not found: " \o call.method, fail)
     ELSE [w EXCEPT
             !.running = @ \cup {[side |-> s, id |-> call.id, h |-> handler,
                                  args |-> Tail(call.args)]},
             !.handled[call.id] =
                [h |-> handler, args |-> Tail(call.args), out |-> NoOutcome],
             !.fx.handlerCalls = Append(@, [h |-> handler, args |-> Tail(call.args)])]

\* handleCall(call) up to its await.
handleCall(w, s, call, fail) ==
  LET handler == IF call.method \in MethodNames THEN w.inst[s].handlers[call.method] ELSE "none"
  IN IF handler = "none"
     THEN rpcSendResponse(w, s, call.id, FALSE, UNDEF,
                          "Method not found: " \o call.method, fail)
     ELSE invoke([w EXCEPT
             !.running = @ \cup {[side |-> s, id |-> call.id, h |-> handler,
                                  args |-> call.args]},
             !.handled[call.id] = [h |-> handler, args |-> call.args, out |-> NoOutcome],
             !.fx.handlerCalls = Append(@, [h |-> handler, args |-> call.args])],
                 call, handler)

\* Variant: a resume without the catch block: what the handler throws
\* escapes and no response is posted (C17 fails with it).
handleCallResumeUncaught(w, r, out, fail) ==
  LET w1 == [w EXCEPT !.running = @ \ {r}, !.handled[r.id].out = out]
  IN IF out.kind = "return"
     THEN rpcSendResponse(w1, r.side, r.id, TRUE, out.v, UNDEF, fail)
     ELSE [w1 EXCEPT !.fx.uncaught = TRUE]

\* handleCall(call) after its await.
handleCallResume(w, r, out, fail) ==
  LET w1 == [w EXCEPT !.running = @ \ {r}, !.handled[r.id].out = out]
  IN CASE out.kind = "return" -> rpcSendResponse(w1, r.side, r.id, TRUE, out.v, UNDEF, fail)
       [] out.kind = "throwError" ->
            rpcSendResponse(w1, r.side, r.id, FALSE, UNDEF, out.message, fail)
       [] OTHER -> rpcSendResponse(w1, r.side, r.id, FALSE, UNDEF, "Unknown error", fail)

\* What handler h returns for the call with id i: two handlers are two
\* functions, with results of their own.
returnOf(h, i) == h \o ":" \o resultOf(i)

\* Variant: the invocation looks its handler up again when it resumes, so
\* that the result is that of the handler registered by then, and an error
\* when there is none (C40 fails with it).
awaitHandlerRegisteredNow(w, r) ==
  LET m == w.calls[CHOOSE c \in Ids : w.calls[c].id = r.id].method
      h == w.inst[r.side].handlers[m]
  IN IF h = "none"
     THEN [kind |-> "throwError", v |-> UNDEF, message |-> "Method not found: " \o m]
     ELSE [kind |-> "return", v |-> returnOf(h, r.id), message |-> UNDEF]

\* await handler(...call.args), for a handler that returns: handler is the
\* constant handleCall() read from the registry before it invoked it.
awaitHandler(w, r) == [kind |-> "return", v |-> returnOf(r.h, r.id), message |-> UNDEF]

\* Variant: a dispatcher that answers a call only when a handler is registered
\* (C14 fails with it).
rpcHandleMessageRegisteredOnly(w, s, data, fail) ==
  IF data.type = "rpc-response" THEN rpcHandleResponse(w, s, data)
  ELSE IF data.type = "rpc-call" /\ w.inst[s].handlers[data.method] # "none"
  THEN handleCall(w, s, data, fail)
  ELSE w

\* handleMessage(data)
rpcHandleMessage(w, s, data, fail) ==
  IF data.type = "rpc-response" THEN rpcHandleResponse(w, s, data)
  ELSE IF data.type = "rpc-call" THEN handleCall(w, s, data, fail)
  ELSE w

\* Variant: a listener without the source check (C10 fails with it).
rpcMessageHandlerAnySource(w, s, event, fail) ==
  IF w.inst[s].targetOrigin # "*" /\ event.origin # w.inst[s].targetOrigin THEN w
  ELSE LET w1 == rpcHandleMessage(w, s, event.data, fail)
       IN [w1 EXCEPT !.fx.onMessage = Append(@, [arg |-> "data", data |-> event.data])]

\* this.messageHandler of the constructor.
rpcMessageHandler(w, s, event, fail) ==
  IF w.inst[s].targetOrigin # "*" /\ event.origin # w.inst[s].targetOrigin THEN w
  ELSE IF event.source # w.inst[s].targetWindow THEN w
  ELSE LET w1 == rpcHandleMessage(w, s, event.data, fail)
       IN [w1 EXCEPT !.fx.onMessage = Append(@, [arg |-> "data", data |-> event.data])]

\* Variant: a destroy that throws on an instance whose listener is already
\* removed (C21 fails with it).
rpcDestroyOnce(w, s) ==
  IF ~w.inst[s].listening THEN [w EXCEPT !.fx.uncaught = TRUE]
  ELSE LET w1 == [w EXCEPT !.inst[s].listening = FALSE,
                           !.inst[s].handlers = [m \in MethodNames |-> "none"]]
           w2 == forEachPending(w1, s, {id \in Ids : get(w1, s, id) # 0},
                                RPCError("RPC destroyed", UNDEF))
       IN [w2 EXCEPT !.inst[s].pending = [id \in Ids |-> 0]]

\* destroy()
rpcDestroy(w, s) ==
  LET w1 == [w EXCEPT !.inst[s].listening = FALSE,
                      !.inst[s].handlers = [m \in MethodNames |-> "none"]]
      w2 == forEachPending(w1, s, {id \in Ids : get(w1, s, id) # 0},
                           RPCError("RPC destroyed", UNDEF))
  IN [w2 EXCEPT !.inst[s].pending = [id \in Ids |-> 0]]

\* Variant: a register that keeps the handler a name already has (C26 fails
\* with it).
registerIfAbsent(w, s, method, handler) ==
  IF w.inst[s].handlers[method] = "none"
  THEN [w EXCEPT !.inst[s].handlers[method] = handler]
  ELSE w

\* register(method, handler)
register(w, s, method, handler) == [w EXCEPT !.inst[s].handlers[method] = handler]

\* Variant: an unregister that removes nothing (C13 fails with it).
unregisterKeeping(w, s, method) == w

\* unregister(method)
unregister(w, s, method) == [w EXCEPT !.inst[s].handlers[method] = "none"]

\* unregisterAll()
unregisterAll(w, s) == [w EXCEPT !.inst[s].handlers = [m \in MethodNames |-> "none"]]

\* registerAll(handlers): entries without a handler are skipped.
registerAll(w, s, hmap) ==
  [w EXCEPT !.inst[s].handlers =
     [m \in MethodNames |->
        IF m \in DOMAIN hmap /\ hmap[m] # "none" THEN hmap[m] ELSE @[m]]]

(***************************************************************************)
(* The event loop of a window.                                             *)
(***************************************************************************)

\* Variant: a dispatcher that takes no envelope while a handler of its
\* instance is awaiting (C25 fails with it).
dispatchEventSerial(w, s, event, fail) ==
  IF ~w.inst[s].listening \/ \E r \in w.running : r.side = s THEN w
  ELSE IF layer = "comm" THEN messageHandler(w, s, event, fail)
  ELSE rpcMessageHandler(w, s, event, fail)

\* A 'message' event reaches the listener of instance s while it is
\* registered (addEventListener in the constructor, removeEventListener in
\* destroy()).
dispatchEvent(w, s, event, fail) ==
  IF ~w.inst[s].listening THEN w
  ELSE IF layer = "comm" THEN messageHandler(w, s, event, fail)
  ELSE rpcMessageHandler(w, s, event, fail)

\* The MessageEvent the browser builds for an envelope posted by the peer of
\* the receiving window.
eventOf(m) == MessageEvent(originOf(peer(m.to)), peer(m.to), m.data)

\* Events the library's peer did not send: posted by some other window of
\* the peer's origin, or by a document of another origin loaded in the peer
\* window.  The latter passes both checks of an instance
\* whose targetOrigin is '*'; such a document is taken to post only plain
\* 'message' envelopes, never forged requests or responses.
ForeignMessage == Envelope("message", 0, "p3", UNDEF, <<>>, FALSE, UNDEF, UNDEF, 0)

ForeignData ==
  IF layer = "comm"
  THEN {Envelope("response", id, "r2", UNDEF, <<>>, TRUE, UNDEF, UNDEF, 0) : id \in Ids}
         \cup {Envelope("request", 0, "p3", UNDEF, <<>>, FALSE, UNDEF, UNDEF, 0),
               ForeignMessage}
  ELSE {Envelope("rpc-response", id, UNDEF, UNDEF, <<>>, TRUE, "r2", UNDEF, 0) : id \in Ids}
         \cup {Envelope("rpc-call", 0, UNDEF, "add", <<"a", "b">>, FALSE, UNDEF, UNDEF, 0),
               ForeignMessage}

ForeignEvents(s) ==
  {MessageEvent(originOf(peer(s)), "other", d) : d \in ForeignData}
    \cup {MessageEvent(originOf("other"), peer(s), d) :
            d \in IF inst[s].targetOrigin = "*" THEN {ForeignMessage} ELSE ForeignData}

(***************************************************************************)
(* Initial state: both instances constructed, nothing issued.              *)
(***************************************************************************)
Init ==
  /\ layer \in Layers
  /\ caller \in Sides
  /\ now = 0
  /\ nextId = 1
  /\ nmsg = 0
  /\ \E o \in Options :
       inst = [s \in Sides |-> IF layer = "comm" THEN Communicator(s, o) ELSE RPC(s, o)]
  /\ calls = [c \in Ids |-> NoCall]
  /\ net = {}
  /\ running = {}
  /\ handled = [i \in 0..MaxCalls |-> NoHandled]
  /\ dev = NoDevTools
  /\ validation = NoValidation
  /\ last = NoFx

\* Initial state of a run in which each side both issues calls and serves
\* those of the other.
DuplexInit ==
  /\ layer \in Layers
  /\ caller = "both"
  /\ now = 0
  /\ nextId = 1
  /\ nmsg = 0
  /\ \E o \in Options :
       inst = [s \in Sides |-> IF layer = "comm" THEN Communicator(s, o) ELSE RPC(s, o)]
  /\ calls = [c \in Ids |-> NoCall]
  /\ net = {}
  /\ running = {}
  /\ handled = [i \in 0..MaxCalls |-> NoHandled]
  /\ dev = NoDevTools
  /\ validation = NoValidation
  /\ last = NoFx

\* Initial state of a run in which the host has constructed its instance and
\* the frame's document has constructed none.
BootInit ==
  /\ layer \in Layers
  /\ caller = "parent"
  /\ now = 0
  /\ nextId = 1
  /\ nmsg = 0
  /\ \E o \in Options, wp \in WindowParents :
       inst = [s \in Sides |->
                 IF s = "child" THEN NotConstructed(wp)
                 ELSE IF layer = "comm" THEN Communicator(s, o) ELSE RPC(s, o)]
  /\ calls = [c \in Ids |-> NoCall]
  /\ net = {}
  /\ running = {}
  /\ handled = [i \in 0..MaxCalls |-> NoHandled]
  /\ dev = NoDevTools
  /\ validation = NoValidation
  /\ last = NoFx

(***************************************************************************)
(* Actions.                                                                *)
(***************************************************************************)

\* The frame's document constructs its instance.
ConstructChild(options) ==
  /\ ~Constructed(inst["child"])
  /\ Commit(ChildConstructor(World("construct"), options))
  /\ UNCHANGED <<layer, caller, now, nextId, nmsg>>

\* communicator.request(payload, timeout)
Request(s, payload, timeout, fail) ==
  /\ layer = "comm"
  /\ caller \in {s, "both"}
  /\ payload = payloadOf(nextId)
  /\ nextId <= MaxCalls
  /\ Commit(request(World("none"), s, nextId, payload, timeout, fail))
  /\ nextId' = nextId + 1
  /\ UNCHANGED <<layer, caller, now, nmsg>>

\* communicator.send(payload)
Send(s, payload, fail) ==
  /\ layer = "comm"
  /\ caller \in {s, "both"}
  /\ payload = payloadOf(nextId)
  /\ nextId <= MaxCalls
  /\ Commit(send(World("none"), s, payload, fail))
  /\ nmsg' = nmsg + 1
  /\ nextId' = nextId + 1
  /\ UNCHANGED <<layer, caller, now>>

\* rpc.call(method, ...args) / rpc.callWithOptions(method, options, ...args)
Call(s, method, options, args, fail) ==
  /\ layer = "rpc"
  /\ caller \in {s, "both"}
  /\ args = argsOf(nextId)
  /\ nextId <= MaxCalls
  /\ Commit(callWithOptions(World("none"), s, nextId, method, options, args, fail))
  /\ nextId' = nextId + 1
  /\ UNCHANGED <<layer, caller, now, nmsg>>

\* request() / callWithOptions() in a run where generateId() may return any
\* id: Date.now() gives the same millisecond to two calls issued together and
\* Math.random() may repeat.
RequestWithId(s, id, payload, timeout, fail) ==
  /\ layer = "comm"
  /\ caller \in {s, "both"}
  /\ payload = payloadOf(nextId)
  /\ nextId <= MaxCalls
  /\ Commit(requestWithId(World("none"), s, nextId, id, payload, timeout, fail))
  /\ nextId' = nextId + 1
  /\ UNCHANGED <<layer, caller, now, nmsg>>

CallWithId(s, id, method, options, args, fail) ==
  /\ layer = "rpc"
  /\ caller \in {s, "both"}
  /\ args = argsOf(nextId)
  /\ nextId <= MaxCalls
  /\ Commit(callWithId(World("none"), s, nextId, id, method, options, args, fail))
  /\ nextId' = nextId + 1
  /\ UNCHANGED <<layer, caller, now, nmsg>>

\* controller.abort() on the signal a call was given: the 'abort' listener
\* of the call runs.  The listener is idempotent (clearTimeout, Map.delete
\* and reject of a settled promise do nothing the second time), so the model
\* does not record that the signal has fired.
Abort(c) ==
  /\ calls[c].signal = "live"
  /\ Commit(abortListener(World("none"), c))
  /\ UNCHANGED <<layer, caller, now, nextId, nmsg>>

\* The timer of call c fires and its callback runs.  Without a clock this is
\* any moment after the timer was set: enough time may have passed.
TimerFire(c) ==
  /\ calls[c].timer
  /\ LET w == World("none")
     IN Commit(IF layer = "comm" THEN requestTimeoutCallback(w, c)
               ELSE callTimeoutCallback(w, c))
  /\ UNCHANGED <<layer, caller, now, nextId, nmsg>>

\* No timer is overdue: the clock may move.
NoTimerBefore(t) == \A c \in Ids : calls[c].timer => t <= calls[c].issuedAt + calls[c].dur

\* The timer of call c comes due on the clock and its callback runs.
TimerDue(c) ==
  /\ now >= calls[c].issuedAt + calls[c].dur
  /\ TimerFire(c)

\* One millisecond passes.
Tick ==
  /\ now < MaxTick
  /\ NoTimerBefore(now + 1)
  /\ now' = now + 1
  /\ last' = NoFx
  /\ UNCHANGED <<layer, caller, nextId, nmsg, inst, calls, net, running, handled, dev,
                 validation>>

\* Time passes until the next timer is due.
AdvanceToTimer ==
  /\ \E c \in Ids : calls[c].timer
  /\ NoTimerBefore(now + 1)
  /\ now' = CHOOSE t \in {calls[c].issuedAt + calls[c].dur : c \in {d \in Ids : calls[d].timer}} :
              NoTimerBefore(t)
  /\ last' = NoFx
  /\ UNCHANGED <<layer, caller, nextId, nmsg, inst, calls, net, running, handled, dev,
                 validation>>

\* An envelope in flight reaches its window.  An envelope that is never
\* delivered is a lost one.  A response stays in flight after it arrived:
\* it may arrive again (a duplicate) at any later moment.
IsResponse(data) == data.type \in {"response", "rpc-response"}

Deliver(m, fail) ==
  /\ m \in net
  /\ Commit(dispatchEvent(
       [World("deliver") EXCEPT !.net = IF IsResponse(m.data) THEN @ ELSE @ \ {m},
                                !.fx.to = m.to,
                                !.fx.type = m.data.type, !.fx.id = m.data.id],
       m.to, eventOf(m), fail))
  /\ UNCHANGED <<layer, caller, now, nextId, nmsg>>

\* A foreign window posts an event to the window of instance s.
Inject(s, event) ==
  /\ event \in ForeignEvents(s)
  /\ Commit(dispatchEvent(
       [World("inject") EXCEPT !.fx.to = s,
                               !.fx.type = event.data.type, !.fx.id = event.data.id,
                               !.fx.origin = event.origin, !.fx.source = event.source],
       s, event, FALSE))
  /\ UNCHANGED <<layer, caller, now, nextId, nmsg>>

\* Envelopes of the other classes: on a channel shared by a Communicator and
\* an RPC instance of each window, every listener of a window gets the
\* envelopes the peer window posts for either of them.  The ids are those of
\* the run, which is the worst case (the code prefixes the ids of RPC calls
\* with 'rpc-').
OtherLayerData ==
  IF layer = "comm"
  THEN {Envelope("rpc-call", id, UNDEF, "add", argsOf(id), FALSE, UNDEF, UNDEF, 0) : id \in Ids}
         \cup {Envelope("rpc-response", id, UNDEF, UNDEF, <<>>, TRUE, resultOf(id), UNDEF, 0) :
                 id \in Ids}
  ELSE {Envelope("request", id, payloadOf(id), UNDEF, <<>>, FALSE, UNDEF, UNDEF, 0) : id \in Ids}
         \cup {Envelope("response", id, resultOf(id), UNDEF, <<>>, TRUE, UNDEF, UNDEF, 0) :
                 id \in Ids}
         \cup {ForeignMessage}

\* The instance of the other classes in the peer window posts an envelope;
\* the listener of instance s gets the event.
Overhear(s, data) ==
  /\ data \in OtherLayerData
  /\ Commit(dispatchEvent(
       [World("overhear") EXCEPT !.fx.to = s,
                                 !.fx.type = data.type, !.fx.id = data.id],
       s, MessageEvent(originOf(peer(s)), peer(s), data), FALSE))
  /\ UNCHANGED <<layer, caller, now, nextId, nmsg>>

\* The promise a handler returned settles (or the handler returned or threw
\* synchronously) and the suspended handleRequest/handleCall resumes.
HandlerSettles(r, out, fail) ==
  /\ r \in running
  /\ out.kind = "return" => out.v = resultOf(r.id)
  /\ LET w == World("none")
     IN Commit(IF layer = "comm" THEN handleRequestResume(w, r, out, fail)
               ELSE handleCallResume(w, r, out, fail))
  /\ UNCHANGED <<layer, caller, now, nextId, nmsg>>

\* The promise of the handler an rpc-call was dispatched to is fulfilled with
\* that handler's result and the suspended handleCall resumes.
HandlerReturns(r) ==
  /\ r \in running
  /\ layer = "rpc"
  /\ Commit(handleCallResume(World("none"), r, awaitHandler(World("none"), r), FALSE))
  /\ UNCHANGED <<layer, caller, now, nextId, nmsg>>

\* instance.destroy()
Destroy(s) ==
  /\ Commit(IF layer = "comm" THEN destroy(World("none"), s)
            ELSE rpcDestroy(World("none"), s))
  /\ UNCHANGED <<layer, caller, now, nextId, nmsg>>

\* rpc.register(method, handler)
Register(s, method, handler) ==
  /\ layer = "rpc"
  /\ caller \in {peer(s), "both"}
  /\ Commit(register(World("none"), s, method, handler))
  /\ UNCHANGED <<layer, caller, now, nextId, nmsg>>

\* rpc.registerAll(handlers)
RegisterAll(s, hmap) ==
  /\ layer = "rpc"
  /\ caller \in {peer(s), "both"}
  /\ Commit(registerAll(World("none"), s, hmap))
  /\ UNCHANGED <<layer, caller, now, nextId, nmsg>>

\* rpc.unregister(method)
Unregister(s, method) ==
  /\ layer = "rpc"
  /\ caller \in {peer(s), "both"}
  /\ Commit(unregister(World("none"), s, method))
  /\ UNCHANGED <<layer, caller, now, nextId, nmsg>>

\* rpc.unregisterAll()
UnregisterAll(s) ==
  /\ layer = "rpc"
  /\ caller \in {peer(s), "both"}
  /\ Commit(unregisterAll(World("none"), s))
  /\ UNCHANGED <<layer, caller, now, nextId, nmsg>>

\* options of callWithOptions: timeout not given (Undef) or a number of ms;
\* signal absent ("none"), not yet aborted ("live") or already aborted.
CallOptions(timeouts, signals) == [timeout : timeouts, signal : signals]
HandlerMaps(methods, handlers) ==
  {hm \in [Methods -> HandlerIds \cup {"none"}] :
     \A m \in Methods : hm[m] # "none" => m \in methods /\ hm[m] \in handlers}

\* The steps of a run whose per-call timeouts, abort signals, called methods
\* and registry operations are drawn from the given sets; fails tells whether
\* the postMessage of a response may throw (that of a request or call may).
Step(timeouts, signals, called, methods, handlers, fails) ==
  \/ \E s \in Sides, p \in Payloads, t \in timeouts, f \in BOOLEAN : Request(s, p, t, f)
  \/ \E s \in Sides, p \in Payloads, f \in BOOLEAN : Send(s, p, f)
  \/ \E s \in Sides, m \in called, o \in CallOptions(timeouts, signals), a \in ArgLists,
        f \in BOOLEAN : Call(s, m, o, a, f)
  \/ \E c \in Ids : Abort(c)
  \/ \E m \in net, f \in fails : Deliver(m, f)
  \/ \E r \in running, o \in Outcomes, f \in fails : HandlerSettles(r, o, f)
  \/ \E s \in Sides : Destroy(s)
  \/ \E s \in Sides, m \in methods, h \in handlers : Register(s, m, h)
  \/ \E s \in Sides, hm \in HandlerMaps(methods, handlers) : RegisterAll(s, hm)
  \/ \E s \in Sides, m \in methods : Unregister(s, m)
  \/ \E s \in Sides : UnregisterAll(s)

\* Without a clock: a timer that is set may fire at any later moment.
Next ==
  \/ Step({Undef}, {"live"}, {"add"}, {"add"}, {"h1"}, {FALSE})
  \/ \E c \in Ids : TimerFire(c)

Spec == Init /\ [][Next]_vars

\* With a clock: a timer fires when its duration has elapsed, and the clock
\* does not pass a timer that is due.  Calls are given a timeout of 1 ms or
\* none (the constructor's or the default one then applies).
TimedNext ==
  \/ \E s \in Sides, p \in Payloads, t \in TimeoutArgs, f \in BOOLEAN : Request(s, p, t, f)
  \/ \E s \in Sides, o \in CallOptions(TimeoutArgs, {"live"}), a \in ArgLists, f \in BOOLEAN :
        Call(s, "add", o, a, f)
  \/ \E c \in Ids : Abort(c)
  \/ \E m \in net : Deliver(m, FALSE)
  \/ \E r \in running, o \in Outcomes : HandlerSettles(r, o, FALSE)
  \/ \E s \in Sides : Destroy(s)
  \/ \E c \in Ids : TimerDue(c)
  \/ Tick
  \/ AdvanceToTimer

TimedSpec == Init /\ [][TimedNext]_vars

\* With foreign windows posting to the two windows, and no clock.
ForeignNext ==
  \/ \E s \in Sides, p \in Payloads, f \in BOOLEAN : Request(s, p, Undef, f)
  \/ \E s \in Sides, o \in CallOptions({Undef}, {"none"}), a \in ArgLists, f \in BOOLEAN :
        Call(s, "add", o, a, f)
  \/ \E s \in Sides : Register(s, "add", "h1")
  \/ \E m \in net : Deliver(m, FALSE)
  \/ \E s \in Sides : \E e \in ForeignEvents(s) : Inject(s, e)
  \/ \E r \in running, o \in Outcomes : HandlerSettles(r, o, FALSE)
  \/ \E c \in Ids : TimerFire(c)

ForeignSpec == Init /\ [][ForeignNext]_vars

\* With a Communicator and an RPC instance of each window on one channel,
\* and no clock.
SharedNext ==
  \/ \E s \in Sides, p \in Payloads, f \in BOOLEAN : Request(s, p, Undef, f)
  \/ \E s \in Sides, o \in CallOptions({Undef}, {"none"}), a \in ArgLists, f \in BOOLEAN :
        Call(s, "add", o, a, f)
  \/ \E s \in Sides : Register(s, "add", "h1")
  \/ \E m \in net : Deliver(m, FALSE)
  \/ \E s \in Sides : \E d \in OtherLayerData : Overhear(s, d)
  \/ \E r \in running, o \in Outcomes : HandlerSettles(r, o, FALSE)
  \/ \E c \in Ids : TimerFire(c)

SharedSpec == Init /\ [][SharedNext]_vars

\* What a handler can throw besides Outcomes: an Error whose message is the
\* text of the failure destroy() rejects with.  The peer is free to put any
\* string in the error field of a failure response.
MimicOutcomes ==
  [kind : {"throwError"}, v : {UNDEF},
   message : {IF layer = "comm" THEN "Communicator destroyed" ELSE "RPC destroyed"}]

\* With handlers that may throw such an Error, and no clock.
MimicNext ==
  \/ \E s \in Sides, p \in Payloads, f \in BOOLEAN : Request(s, p, Undef, f)
  \/ \E s \in Sides, o \in CallOptions({Undef}, {"none"}), a \in ArgLists, f \in BOOLEAN :
        Call(s, "add", o, a, f)
  \/ \E s \in Sides : Register(s, "add", "h1")
  \/ \E m \in net : Deliver(m, FALSE)
  \/ \E r \in running, o \in Outcomes \cup MimicOutcomes : HandlerSettles(r, o, FALSE)
  \/ \E s \in Sides : Destroy(s)
  \/ \E c \in Ids : TimerFire(c)

MimicSpec == Init /\ [][MimicNext]_vars

\* With ids that generateId() draws freely, and no clock.
AnyIdNext ==
  \/ \E s \in Sides, id \in Ids, p \in Payloads, f \in BOOLEAN :
        RequestWithId(s, id, p, Undef, f)
  \/ \E s \in Sides, id \in Ids, o \in CallOptions({Undef}, {"none"}), a \in ArgLists,
        f \in BOOLEAN : CallWithId(s, id, "add", o, a, f)
  \/ \E s \in Sides : Register(s, "add", "h1")
  \/ \E m \in net : Deliver(m, FALSE)
  \/ \E r \in running, o \in Outcomes : HandlerSettles(r, o, FALSE)
  \/ \E c \in Ids : TimerFire(c)

AnyIdSpec == Init /\ [][AnyIdNext]_vars

\* With every registry operation on two names and two handlers; the calls
\* are for the first name and their handlers return.
RegistryNext ==
  \/ \E s \in Sides, o \in CallOptions({Undef}, {"none"}), a \in ArgLists :
        Call(s, "add", o, a, FALSE)
  \/ \E s \in Sides, m \in Methods, h \in HandlerIds : Register(s, m, h)
  \/ \E s \in Sides, hm \in HandlerMaps(Methods, HandlerIds) : RegisterAll(s, hm)
  \/ \E s \in Sides, m \in Methods : Unregister(s, m)
  \/ \E s \in Sides : UnregisterAll(s)
  \/ \E m \in net : Deliver(m, FALSE)
  \/ \E r \in running, o \in {x \in Outcomes : x.kind = "return"} : HandlerSettles(r, o, FALSE)

RegistrySpec == Init /\ [][RegistryNext]_vars

\* With both sides issuing and serving, and no clock.
DuplexNext ==
  \/ \E s \in Sides, p \in Payloads : Request(s, p, Undef, FALSE)
  \/ \E s \in Sides, p \in Payloads : Send(s, p, FALSE)
  \/ \E s \in Sides, o \in CallOptions({Undef}, {"none"}), a \in ArgLists :
        Call(s, "add", o, a, FALSE)
  \/ \E s \in Sides : Register(s, "add", "h1")
  \/ \E m \in net : Deliver(m, FALSE)
  \/ \E r \in running, o \in Outcomes : HandlerSettles(r, o, FALSE)
  \/ \E c \in Ids : TimerFire(c)

DuplexSpec == DuplexInit /\ [][DuplexNext]_vars

\* From the construction of the frame's instance on: the host issues
\* requests and calls before and after it.
BootNext ==
  \/ \E o \in Options : ConstructChild(o)
  \/ \E p \in Payloads, f \in BOOLEAN : Request("parent", p, Undef, f)
  \/ \E o \in CallOptions({Undef}, {"none"}), a \in ArgLists, f \in BOOLEAN :
        Call("parent", "add", o, a, f)
  \/ \E m \in net : Deliver(m, FALSE)
  \/ \E r \in running, o \in Outcomes : HandlerSettles(r, o, FALSE)
  \/ \E c \in Ids : TimerFire(c)

BootSpec == BootInit /\ [][BootNext]_vars

(***************************************************************************)
(* DevTools: a ChildDevTools in the frame, a ParentDevTools in the host.   *)
(***************************************************************************)

\* new ChildDevTools({...options, functionPattern}): a ChildRPC, the four
\* handlers, a first scan.
ChildDevTools(w, options, functionPattern) ==
  LET w1 == ChildConstructor([w EXCEPT !.dev.functionPattern = functionPattern], options)
      w2 == register(w1, "child", "__devtools_list", DevHandlers["__devtools_list"])
      w3 == register(w2, "child", "__devtools_call", DevHandlers["__devtools_call"])
      w4 == register(w3, "child", "__devtools_refresh", DevHandlers["__devtools_refresh"])
      w5 == register(w4, "child", "__devtools_get_config",
                     DevHandlers["__devtools_get_config"])
  IN IF w1.fx.uncaught THEN w1 ELSE refreshFunctions(w5)

\* Initial state of a run with DevTools: the host has a ParentDevTools on a
\* ParentRPC, the frame's document has defined its globals and constructed a
\* ChildDevTools with one of the given patterns.
DevToolsStart(patterns, names) ==
  /\ layer = "rpc"
  /\ caller = "parent"
  /\ now = 0
  /\ nextId = 1
  /\ nmsg = 0
  /\ \E o \in {x \in Options : x.onRequest}, win \in [Names -> {"absent", "value", "f1"}],
        pattern \in patterns :
       /\ \A n \in Names \ names : win[n] = "absent"
       /\ LET w == ChildDevTools(
                     [inst |-> [s \in Sides |-> IF s = "parent" THEN RPC(s, o)
                                                ELSE NotConstructed("parent")],
                      calls |-> [c \in Ids |-> NoCall], net |-> {}, running |-> {},
                      handled |-> [i \in 0..MaxCalls |-> NoHandled],
                      dev |-> [NoDevTools EXCEPT !.window = win],
                      validation |-> NoValidation, fx |-> NoFx], o, pattern)
          IN /\ inst = w.inst
             /\ dev = w.dev
  /\ validation = NoValidation
  /\ calls = [c \in Ids |-> NoCall]
  /\ net = {}
  /\ running = {}
  /\ handled = [i \in 0..MaxCalls |-> NoHandled]
  /\ last = NoFx

\* The globals the page of the DevTools runs defines.
PageNames == {"__a", "plain"}

\* The ChildDevTools is constructed without a functionPattern.
DevToolsInit == DevToolsStart({UNDEF}, PageNames)

\* The ChildDevTools is constructed without a functionPattern or with a
\* RegExp that has the global flag, in a page that defines functions under
\* any of the names.
PatternInit ==
  /\ DevToolsStart(FunctionPatterns, Names)
  /\ \A n \in Names : dev.window[n] # "value"

\* rpc.call(method, ...args) of the ParentDevTools
devToolsCall(method, args, fail) ==
  /\ nextId <= MaxCalls
  /\ Commit(callWithOptions(World("none"), "parent", nextId, method,
                            [timeout |-> Undef, signal |-> "none"], args, fail))
  /\ nextId' = nextId + 1
  /\ UNCHANGED <<layer, caller, now, nmsg>>

\* ParentDevTools.listFunctions()
ParentListFunctions(fail) == devToolsCall("__devtools_list", <<>>, fail)

\* ParentDevTools.callFunction(name, ...args)
ParentCallFunction(name, fail) == devToolsCall("__devtools_call", <<name, "a">>, fail)

\* ParentDevTools.refreshFunctions()
ParentRefreshFunctions(fail) == devToolsCall("__devtools_refresh", <<>>, fail)

\* ChildDevTools.expose(name, fn)
Expose(name, fn) ==
  /\ Commit(expose(World("expose"), name, fn))
  /\ UNCHANGED <<layer, caller, now, nextId, nmsg>>

\* A script of the frame defines, overwrites or deletes a global.
WindowSet(name, entry) ==
  /\ dev.window[name] # entry
  /\ Commit([World("none") EXCEPT !.dev.window[name] = entry])
  /\ UNCHANGED <<layer, caller, now, nextId, nmsg>>

\* The handler of ChildDevTools that serves r settles and handleCall resumes:
\* listFunctions, refreshFunctions and getConfig with what they returned,
\* callFunction with what its target did (when it found one).
DevToolsSettles(r, target) ==
  /\ r \in running
  /\ r.h \in {DevHandlers[m] : m \in DevMethods}
  /\ target.kind = "return" => target.v = resultOf(r.id)
  /\ (r.h # "callFunction" \/ dev.looked[r.id] = "none") => target.kind = "return"
  /\ Commit(handleCallResume(
       IF r.h = "callFunction" /\ dev.looked[r.id] # "none"
       THEN [World("none") EXCEPT !.dev.target[r.id] = target] ELSE World("none"),
       r,
       IF r.h = "callFunction"
       THEN callFunctionOutcome(r.args[1], dev.looked[r.id], target)
       ELSE [kind |-> "return", v |-> dev.returned[r.id], message |-> UNDEF],
       FALSE))
  /\ UNCHANGED <<layer, caller, now, nextId, nmsg>>

\* The names the host asks for: those of the window and one that is none.
CalledNames == PageNames \cup {"__c"}

\* The frame's scripts define and delete the function f1, and expose f2; the
\* host's calls are posted and do not time out.
DevToolsNext ==
  \/ ParentListFunctions(FALSE)
  \/ \E n \in CalledNames : ParentCallFunction(n, FALSE)
  \/ ParentRefreshFunctions(FALSE)
  \/ \E n \in PageNames : Expose(n, "f2")
  \/ \E n \in PageNames, e \in {"absent", "f1"} : WindowSet(n, e)
  \/ \E m \in net : Deliver(m, FALSE)
  \/ \E r \in running, o \in Outcomes : DevToolsSettles(r, o)

DevToolsSpec == DevToolsInit /\ [][DevToolsNext]_vars

\* Refreshes and calls of functions that return, in a page that defines,
\* deletes and exposes functions under any of the names.
PatternNext ==
  \/ \E n \in {"__b", "plain"} : ParentCallFunction(n, FALSE)
  \/ ParentRefreshFunctions(FALSE)
  \/ \E n \in Names : Expose(n, "f2")
  \/ \E n \in Names : WindowSet(n, "absent")
  \/ \E m \in net : Deliver(m, FALSE)
  \/ \E r \in running, o \in {x \in Outcomes : x.kind = "return"} : DevToolsSettles(r, o)

PatternSpec == PatternInit /\ [][PatternNext]_vars

(***************************************************************************)
(* The metadata validator: the schemas of a parameter descriptor as        *)
(* predicates on the descriptor, and validateParamMeta.                    *)
(***************************************************************************)

\* ParamMetaBaseSchema: name is a string of at least one character.
ParamMetaBaseSchema(data) == data.name # ""

\* step: z.number().positive().optional()
stepSchema(data) == \A n \in data.step : n > 0

\* The refinement of NumberParamMetaSchema.
numberRefinement(data) ==
  IF data.min # {} /\ data.max # {}
  THEN \A a \in data.min, b \in data.max : a <= b
  ELSE TRUE

NumberParamMetaSchema(data) ==
  /\ ParamMetaBaseSchema(data)
  /\ data.type = "number"
  /\ stepSchema(data)
  /\ numberRefinement(data)

\* Variant: a refinement that lets min = max through (C30 fails with it).
rangeRefinementInclusive(data) == \A a \in data.min, b \in data.max : a <= b

\* The refinement of RangeParamMetaSchema.
rangeRefinement(data) == \A a \in data.min, b \in data.max : a < b

\* min and max are required here.
RangeParamMetaSchema(data) ==
  /\ ParamMetaBaseSchema(data)
  /\ data.type = "range"
  /\ data.min # {} /\ data.max # {}
  /\ stepSchema(data)
  /\ rangeRefinement(data)

\* ParamMetaSchema: the schema the value of type selects.
ParamMetaSchema(data) ==
  CASE data.type = "number" -> NumberParamMetaSchema(data)
    [] data.type = "range" -> RangeParamMetaSchema(data)
    [] OTHER -> FALSE

\* validateParamMeta(param): errors tells whether the result has a list of
\* errors (it is never empty when present).
validateParamMeta(param) ==
  IF ParamMetaSchema(param)
  THEN [success |-> TRUE, data |-> param, errors |-> FALSE, returned |-> TRUE]
  ELSE [success |-> FALSE, data |-> NoParamMeta, errors |-> TRUE, returned |-> TRUE]

\* Initial state of a run of the validator: some descriptor, not yet given
\* to it.
ValidatorInit ==
  /\ Init
  /\ layer = "rpc"

\* A caller builds a descriptor.
Describe(param) ==
  /\ validation' = [NoValidation EXCEPT !.param = param]
  /\ UNCHANGED <<layer, caller, now, nextId, nmsg, inst, calls, net, running, handled, dev,
                 last>>

\* validateParamMeta(param) on the descriptor built.
ValidateParamMeta ==
  /\ validation.param # NoParamMeta
  /\ validation' = [validation EXCEPT !.result = validateParamMeta(validation.param)]
  /\ UNCHANGED <<layer, caller, now, nextId, nmsg, inst, calls, net, running, handled, dev,
                 last>>

ValidatorNext ==
  \/ \E param \in ParamMetas : Describe(param)
  \/ ValidateParamMeta

ValidatorSpec == ValidatorInit /\ [][ValidatorNext]_vars

\* Without a clock, with a postMessage that may throw for a response as
\* well as for a request, a call or a message.
UnreliableNext ==
  \/ Step({Undef}, {"live"}, {"add"}, {"add"}, {"h1"}, BOOLEAN)
  \/ \E c \in Ids : TimerFire(c)

UnreliableSpec == Init /\ [][UnreliableNext]_vars

\* What a handler can throw besides Outcomes: an Error whose message is the
\* text of the failure a timeout or an abort rejects with.
ImpostorOutcomes ==
  [kind : {"throwError"}, v : {UNDEF}, message : {"RPC call timeout", "RPC call aborted"}]

\* RPC calls with every way of ending, served by handlers that may throw
\* such an Error; no clock.
CodesNext ==
  \/ \E s \in Sides, o \in CallOptions({Undef}, {"live"}), a \in ArgLists, f \in BOOLEAN :
        Call(s, "add", o, a, f)
  \/ \E c \in Ids : Abort(c)
  \/ \E s \in Sides : Register(s, "add", "h1")
  \/ \E m \in net : Deliver(m, FALSE)
  \/ \E r \in running, o \in Outcomes \cup ImpostorOutcomes : HandlerSettles(r, o, FALSE)
  \/ \E s \in Sides : Destroy(s)
  \/ \E c \in Ids : TimerFire(c)

CodesSpec == Init /\ [][CodesNext]_vars

\* Calls are given a signal that is not yet aborted or one that already is:
\* the 'abort' event of a signal is dispatched once, so a listener added to
\* an aborted signal never runs.
AbortedNext ==
  \/ Step({Undef}, {"live", "aborted"}, {"add"}, {"add"}, {"h1"}, {FALSE})
  \/ \E c \in Ids : TimerFire(c)

AbortedSpec == Init /\ [][AbortedNext]_vars

\* RPC instances whose registry is changed, and which are destroyed, while
\* the handlers of the calls for 'add' are awaiting; each handler returns a
\* result of its own.
AwaitInit == Init /\ layer = "rpc"

AwaitNext ==
  \/ \E s \in Sides, o \in CallOptions({Undef}, {"none"}), a \in ArgLists :
        Call(s, "add", o, a, FALSE)
  \/ \E s \in Sides, h \in HandlerIds : Register(s, "add", h)
  \/ \E s \in Sides : Unregister(s, "add")
  \/ \E s \in Sides : UnregisterAll(s)
  \/ \E s \in Sides : Destroy(s)
  \/ \E m \in net : Deliver(m, FALSE)
  \/ \E r \in running : HandlerReturns(r)

AwaitSpec == AwaitInit /\ [][AwaitNext]_vars

\* The timers of the platform are fair: a timer that stays set fires.
LiveSpec == Spec /\ \A c \in Ids : WF_vars(TimerFire(c))

(***************************************************************************)
(* Vocabulary of the properties.                                           *)
(***************************************************************************)
Settled(c) == calls[c].state \in {"fulfilled", "rejected"}
Pending(c) == calls[c].state = "pending"

\* The step delivered a response envelope carrying id i to the instance that
\* owns call c (the ids of a run are the indices of its calls).
ResponseArrives(c) ==
  /\ last'.op = "deliver"
  /\ IsResponse(last')
  /\ last'.id = calls[c].id

\* The response call c gets arrives while the call is pending and its
\* instance has not been destroyed.
ResponseInTime(c) ==
  /\ Pending(c)
  /\ inst[calls[c].owner].listening
  /\ ResponseArrives(c)

\* The step ran no callback or handler, sent nothing and raised nothing.
Silent(fx) ==
  /\ fx.onMessage = <<>>
  /\ fx.handlerCalls = <<>>
  /\ fx.onError = <<>>
  /\ fx.sent = <<>>
  /\ ~fx.uncaught

\* The step changed no instance, promise, timer, envelope in flight or handler.
Untouched == UNCHANGED <<inst, calls, net, running, handled>>

(***************************************************************************)
(* C1.  A promise returned by request / call / callWithOptions settles at  *)
(* most once: once it is fulfilled or rejected, no later step (a matching  *)
(* or duplicate response, a timer expiry, an abort, destroy()) changes its *)
(* state, its value or what settled it, and a response that arrives for it *)
(* raises no error.                                                        *)
(***************************************************************************)
C1_SettlesAtMostOnce ==
  [][\A c \in Ids :
       Settled(c) => /\ calls'[c].state = calls[c].state
                     /\ calls'[c].value = calls[c].value
                     /\ calls'[c].cause = calls[c].cause
                     /\ ResponseArrives(c) => last'.onError = <<>> /\ ~last'.uncaught]_vars

\* A call rejected by a send failure whose timer callback or abort listener
\* ran afterwards (its table entry and timer are gone) in a live instance.
C1_Witness ==
  \E c \in Ids :
    /\ calls[c].cause = "send"
    /\ calls[c].value = RPCError("Failed to send RPC call: postMessage failed", "SEND_ERROR")
    /\ ~calls[c].timer
    /\ inst[calls[c].owner].pending[calls[c].id] = 0
    /\ inst[calls[c].owner].listening

(***************************************************************************)
(* C2.  Provided timers that are set eventually fire, every promise that   *)
(* is pending is eventually settled, whatever happens to its envelopes     *)
(* (lost, send failure), and whether or not the instance was destroyed     *)
(* before the call was issued.                                             *)
(***************************************************************************)
C2_EventuallySettles ==
  \A c \in Ids : Pending(c) ~> Settled(c)

\* A request whose envelope could not be sent, settled by its timer.
C2_Witness ==
  \E c \in Ids :
    /\ layer = "comm"
    /\ calls[c].cause = "timeout"
    /\ handled[calls[c].id] = NoHandled
    /\ \A m \in net : m.data.id # calls[c].id

(***************************************************************************)
(* C3.  With two calls of one instance pending at the same time, a         *)
(* response carrying the id of one settles that call only and leaves the   *)
(* other pending, in whichever order the responses arrive; a call settled  *)
(* by a response has the result or the error of the response with its id.  *)
(***************************************************************************)
OutcomeOf(data) ==
  IF data.success
  THEN [state |-> "fulfilled", v |-> IF layer = "comm" THEN data.payload ELSE data.result]
  ELSE [state |-> "rejected", v |-> data.error]

HasOutcome(call, data) ==
  /\ call.state = OutcomeOf(data).state
  /\ data.success => call.value.v = OutcomeOf(data).v
  /\ ~data.success /\ data.error # "" => call.value.message = OutcomeOf(data).v

C3_MatchById ==
  [][/\ \A i, j \in Ids :
          (/\ i # j
           /\ calls[i].owner = calls[j].owner
           /\ Pending(j)
           /\ ResponseInTime(i))
          => /\ calls'[j] = calls[j]
             /\ inst'[calls[j].owner].pending[calls[j].id] = j
             /\ Settled(i)'
     /\ \A c \in Ids :
          calls'[c].cause = "response"
          => \E m \in net' : /\ m.to = calls'[c].owner
                             /\ IsResponse(m.data)
                             /\ m.data.id = calls'[c].id
                             /\ HasOutcome(calls'[c], m.data)]_vars

\* The response to the second call arrived first: the first is still pending
\* with its response in flight.
C3_Witness ==
  /\ calls[1].owner = calls[2].owner
  /\ Pending(1)
  /\ calls[2].cause = "response"
  /\ last.op = "deliver" /\ IsResponse(last) /\ last.id = calls[2].id
  /\ \E m \in net : IsResponse(m.data) /\ m.data.id = calls[1].id

(***************************************************************************)
(* C4.  request(P): onRequest of the peer is invoked with exactly P, and   *)
(* when it returns (or resolves to) R and the response arrives before the  *)
(* timeout and before destroy(), the promise fulfils with exactly R.       *)
(***************************************************************************)
C4_RequestFulfilsWithResult ==
  [][\A c \in Ids :
       (/\ layer = "comm"
        /\ ResponseInTime(c)
        /\ handled[calls[c].id].out.kind = "return")
       => /\ handled[calls[c].id].args = <<calls[c].payload>>
          /\ calls'[c].state = "fulfilled"
          /\ calls'[c].value = Value(handled[calls[c].id].out.v)]_vars

\* The second request of a run fulfilled with what onRequest returned for it.
C4_Witness ==
  /\ layer = "comm"
  /\ calls[2].state = "fulfilled"
  /\ calls[2].value = Value("r2")
  /\ handled[2] = [h |-> "onRequest", args |-> <<"p2">>,
                   out |-> [kind |-> "return", v |-> "r2", message |-> UNDEF]]
  /\ last.op = "deliver" /\ last.type = "response" /\ last.id = 2

(***************************************************************************)
(* C5.  call(m, ...args) with a handler h registered for m on the peer:    *)
(* the peer, when the rpc-call reaches it, invokes h once with exactly     *)
(* args in the same order; when the rpc-response arrives before timeout,   *)
(* abort and destroy(), the promise fulfils with the value h returned.     *)
(***************************************************************************)
C5_CallInvokesHandler ==
  [][\A c \in Ids :
       LET callee == peer(calls[c].owner)
           h == inst[callee].handlers[calls[c].method]
       IN /\ (/\ layer = "rpc"
              /\ calls[c].state # "none"
              /\ last'.op = "deliver" /\ last'.type = "rpc-call" /\ last'.id = calls[c].id
              /\ inst[callee].listening
              /\ h # "none")
             => /\ last'.handlerCalls = <<[h |-> h, args |-> calls[c].args]>>
                /\ handled'[calls[c].id] = [h |-> h, args |-> calls[c].args, out |-> NoOutcome]
          /\ (/\ layer = "rpc"
              /\ ResponseInTime(c)
              /\ handled[calls[c].id].out.kind = "return")
             => /\ calls'[c].state = "fulfilled"
                /\ calls'[c].value = Value(handled[calls[c].id].out.v)]_vars

\* The second call of a run, with arguments ("b", "a"), served by h1.
C5_Witness ==
  /\ layer = "rpc"
  /\ calls[2].args = <<"b", "a">>
  /\ handled[2].h = "h1"
  /\ handled[2].args = <<"b", "a">>
  /\ calls[2].state = "fulfilled"
  /\ calls[2].value = Value("r2")
  /\ last.op = "deliver" /\ last.type = "rpc-response" /\ last.id = 2

(***************************************************************************)
(* C6.  When the handler of the peer (onRequest or an RPC handler) throws  *)
(* or rejects with an Error whose message is M, M not empty, and the       *)
(* failure response arrives while the call is pending, the promise rejects *)
(* with an error whose message is M.                                       *)
(***************************************************************************)
RejectsWithMessageOf(c) ==
  /\ calls'[c].state = "rejected"
  /\ calls'[c].value.message = handled[calls[c].id].out.message

C6_RejectsWithHandlerMessage ==
  [][\A c \in Ids :
       (/\ ResponseInTime(c)
        /\ handled[calls[c].id].out.kind = "throwError"
        /\ handled[calls[c].id].out.message # "")
       => RejectsWithMessageOf(c)]_vars

\* C6 as stated, for every message M, the empty one included.
C6_EveryMessage ==
  [][\A c \in Ids :
       (/\ ResponseInTime(c)
        /\ handled[calls[c].id].out.kind = "throwError")
       => RejectsWithMessageOf(c)]_vars

\* A call rejected with the message "boom" its handler threw.
C6_Witness ==
  \E c \in Ids :
    /\ handled[calls[c].id].out = [kind |-> "throwError", v |-> UNDEF, message |-> "boom"]
    /\ calls[c].state = "rejected"
    /\ calls[c].value.message = "boom"
    /\ last.op = "deliver" /\ IsResponse(last) /\ last.id = calls[c].id

(***************************************************************************)
(* C7.  If no response for a request or call is processed, and neither     *)
(* destroy(), an abort nor a send failure settles it, before its timeout   *)
(* duration has elapsed, the promise rejects with the timeout failure at   *)
(* the moment the duration elapses and not earlier, its table entry is     *)
(* removed at that moment, and a response with its id that arrives later   *)
(* changes nothing, sends nothing, runs no handler and reports no error.   *)
(***************************************************************************)
Due(c) == calls[c].issuedAt + calls[c].dur

TimeoutFailure ==
  IF layer = "comm" THEN Error("Request timeout") ELSE RPCError("RPC call timeout", "TIMEOUT")

\* The duration of call c has elapsed and its timer is not waiting to run.
Elapsed(c) ==
  /\ calls[c].state # "none"
  /\ now > Due(c) \/ (now = Due(c) /\ ~calls[c].timer)

TimedOut(c) ==
  /\ calls[c].state = "rejected"
  /\ calls[c].value = TimeoutFailure
  /\ calls[c].cause = "timeout"
  /\ calls[c].settledAt = Due(c)
  /\ ~calls[c].timer
  /\ inst[calls[c].owner].pending[calls[c].id] = 0

\* The step handled nothing but, on the RPC classes, the onMessage tap of
\* the listener.
NoOp ==
  /\ Untouched
  /\ last'.handlerCalls = <<>> /\ last'.onError = <<>> /\ last'.sent = <<>>
  /\ ~last'.uncaught
  /\ layer = "comm" => last'.onMessage = <<>>

LateResponseIsNoOp ==
  \A c \in Ids : calls[c].cause = "timeout" /\ ResponseArrives(c) => NoOp

DestroyedFailure ==
  IF layer = "comm" THEN Error("Communicator destroyed") ELSE RPCError("RPC destroyed", UNDEF)

\* w is the world destroy() of instance s leaves when called now.
DestroyRejectsAll(w, s) ==
  /\ \A c \in Ids :
       calls[c].owner = s /\ Pending(c)
       => /\ w.calls[c].state = "rejected"
          /\ w.calls[c].value = DestroyedFailure
          /\ ~w.calls[c].timer
  /\ \A c \in Ids : calls[c].owner # s \/ ~Pending(c) => w.calls[c].state = calls[c].state
  /\ \A id \in Ids : w.inst[s].pending[id] = 0
  /\ ~w.inst[s].listening
  /\ w.fx = NoFx

C8_DestroyRejectsPending ==
  [][/\ \A s \in Sides :
          /\ inst[s].listening /\ ~inst'[s].listening
             => DestroyRejectsAll([calls |-> calls', inst |-> inst', fx |-> last'], s)
          /\ DestroyRejectsAll(IF layer = "comm" THEN destroy(World("none"), s)
                               ELSE rpcDestroy(World("none"), s), s)
     /\ \A c \in Ids :
          (/\ calls[c].state # "none"
           /\ ~inst[calls[c].owner].listening
           /\ ResponseArrives(c))
          => Untouched /\ Silent(last')]_vars

\* Two pending calls of one instance rejected by its destroy(); the response
\* to the first arrived after that.
C8_Witness ==
  /\ \A c \in Ids : calls[c].cause = "destroy" /\ calls[c].value = DestroyedFailure
  /\ calls[1].owner = calls[2].owner
  /\ ~inst[calls[1].owner].listening
  /\ last.op = "deliver" /\ IsResponse(last) /\ last.id = calls[1].id

(***************************************************************************)
(* C9.  An instance whose targetOrigin is not '*' drops an inbound message *)
(* of another origin: no onMessage, onRequest or RPC handler runs, no      *)
(* pending call is settled or removed, no response is sent.  An instance   *)
(* whose targetOrigin is '*' (given or by default) accepts a message of    *)
(* its peer window whatever its origin.                                    *)
(***************************************************************************)
C9_OriginFilter ==
  [][last'.op = "inject" =>
       LET s == last'.to
       IN /\ inst[s].targetOrigin # "*" /\ last'.origin # inst[s].targetOrigin
             => Untouched /\ Silent(last')
          /\ (/\ inst[s].targetOrigin = "*"
              /\ inst[s].listening
              /\ last'.source = inst[s].targetWindow)
             => last'.onMessage # <<>>]_vars

\* A forged response with the id of a pending call, of a foreign origin but
\* from the peer window, reached an instance configured with its peer's
\* origin.
C9_Witness ==
  /\ last.op = "inject"
  /\ IsResponse(last)
  /\ last.source = peer(last.to)
  /\ last.origin = originOf("other")
  /\ inst[last.to].targetOrigin = originOf(peer(last.to))
  /\ \E c \in Ids : /\ calls[c].owner = last.to
                    /\ calls[c].id = last.id
                    /\ Pending(c)
                    /\ inst[last.to].pending[last.id] = c

(***************************************************************************)
(* C10.  An inbound message whose source is not the peer window of the     *)
(* instance is dropped, even with an origin that passes the origin check   *)
(* and the id of a pending call: no callback or handler runs, no pending   *)
(* call is settled, no response is sent.                                   *)
(***************************************************************************)
C10_SourceFilter ==
  [][last'.op = "inject" /\ last'.source # inst[last'.to].targetWindow
     => Untouched /\ Silent(last')]_vars

\* A forged response with the id of a pending call and the peer's origin,
\* posted by another window.
C10_Witness ==
  /\ last.op = "inject"
  /\ IsResponse(last)
  /\ last.source = "other"
  /\ last.origin = originOf(peer(last.to))
  /\ \E c \in Ids : /\ calls[c].owner = last.to
                    /\ calls[c].id = last.id
                    /\ Pending(c)
                    /\ inst[last.to].pending[last.id] = c

(***************************************************************************)
(* C11.  When postMessage throws while request() or call() posts its       *)
(* envelope, nothing is thrown to the caller and the promise returned is   *)
(* rejected with a send failure (on the RPC classes an RPCError with code  *)
(* SEND_ERROR).                                                            *)
(***************************************************************************)

\* The step issued call c and its postMessage threw: no envelope was posted.
IssuedWithoutPosting(c) ==
  /\ calls[c].state = "none"
  /\ calls'[c].state # "none"
  /\ last'.sent = <<>>

\* C11 as stated, for both layers.
C11_SendFailureRejects ==
  [][\A c \in Ids :
       IssuedWithoutPosting(c)
       => /\ ~last'.uncaught
          /\ calls'[c].state = "rejected"
          /\ calls'[c].cause = "send"
          /\ layer = "rpc" => calls'[c].value.code = "SEND_ERROR"]_vars

\* A request whose postMessage threw: onError was told, and the promise is
\* pending with its timer set and its entry in the table.
C11_Witness ==
  \E c \in Ids :
    /\ layer = "comm"
    /\ Pending(c) /\ calls[c].timer
    /\ inst[calls[c].owner].pending[calls[c].id] = c
    /\ last.onError = <<Error("postMessage failed")>>
    /\ last.sent = <<>>
    /\ \A m \in net : m.data.id # calls[c].id

(***************************************************************************)
(* C12.  When the AbortSignal given to callWithOptions fires while the     *)
(* call is pending, the promise is rejected within that step with RPCError *)
(* 'RPC call aborted' of code ABORTED, the timer of the call is cleared    *)
(* and its table entry removed, no envelope is posted to the peer, and a   *)
(* response with the id of the call that arrives later changes nothing,    *)
(* sends nothing, runs no handler and reports no error.                    *)
(***************************************************************************)
AbortedFailure == RPCError("RPC call aborted", "ABORTED")

\* In world w call c, pending now, stands rejected by its abort listener.
AbortedIn(w, c) ==
  /\ w.calls[c].state = "rejected"
  /\ w.calls[c].value = AbortedFailure
  /\ w.calls[c].cause = "abort"
  /\ ~w.calls[c].timer
  /\ w.inst[calls[c].owner].pending[calls[c].id] = 0
  /\ w.fx.sent = <<>> /\ ~w.fx.uncaught
  /\ w.net = net
  /\ \A d \in Ids \ {c} : w.calls[d] = calls[d]

CallEvent(s, id, m) ==
  MessageEvent(originOf(peer(s)), peer(s),
               Envelope("rpc-call", id, UNDEF, m, argsOf(id), FALSE, UNDEF, UNDEF, 0))

MethodNotFound(id, m) ==
  Envelope("rpc-response", id, UNDEF, UNDEF, <<>>, FALSE, UNDEF, "Method not found: " \o m, 0)

\* In world w instance s has no handler for m, and an rpc-call for m that
\* reaches it is refused without running anything.
RefusedIn(w, s, m) ==
  /\ w.inst[s].handlers[m] = "none"
  /\ \A id \in Ids :
       LET w2 == dispatchEvent([w EXCEPT !.fx = NoFx], s, CallEvent(s, id, m), FALSE)
       IN /\ w2.fx.handlerCalls = <<>>
          /\ w2.running = w.running
          /\ w2.handled = w.handled
          /\ w2.fx.sent = <<MethodNotFound(id, m)>>
          /\ w2.fx.onError = <<>> /\ ~w2.fx.uncaught

C13_UnregisteredIsNotFound ==
  layer = "rpc" =>
    \A s \in Sides : inst[s].listening =>
      /\ \A m \in Methods : RefusedIn(unregister(World("none"), s, m), s, m)
      /\ \A m \in Methods : RefusedIn(unregisterAll(World("none"), s), s, m)
      /\ \A m \in Methods : inst[s].handlers[m] = "none" => RefusedIn(World("none"), s, m)

\* The first call was served by handler h1; the handler was then removed
\* from an instance that still listens, and the second call for the same
\* method has just been answered 'Method not found: add'.
C13_Witness ==
  /\ layer = "rpc"
  /\ handled[1].h = "h1" /\ calls[1].method = "add"
  /\ calls[2].method = "add" /\ handled[2].h = "none"
  /\ inst[peer(calls[2].owner)].listening
  /\ inst[peer(calls[2].owner)].handlers["add"] = "none"
  /\ last.op = "deliver" /\ last.type = "rpc-call" /\ last.id = 2
  /\ last.sent = <<MethodNotFound(2, "add")>>
  /\ last.handlerCalls = <<>>

(***************************************************************************)
(* C14.  An rpc-call that passes the checks of the listener and names a    *)
(* method without a registered handler is answered with exactly one        *)
(* rpc-response carrying the id of the call, success = false and the error *)
(* 'Method not found: <method>'; no handler is invoked, and no error is    *)
(* reported or thrown on the receiving side.                               *)
(***************************************************************************)

\* Envelopes of the given type and id in flight to window s.
InFlight(s, type, id) == {m \in net : m.to = s /\ m.data.type = type /\ m.data.id = id}

\* The step delivered rpc-call m to a listening instance that has no handler
\* for its method.
UnhandledCallArrives(m) ==
  /\ m \in net /\ m \notin net'
  /\ m.data.type = "rpc-call"
  /\ last'.op = "deliver" /\ last'.to = m.to /\ last'.id = m.data.id
  /\ inst[m.to].listening
  /\ inst[m.to].handlers[m.data.method] = "none"

C14_NoHandlerAnswersNotFound ==
  [][\A m \in net :
       UnhandledCallArrives(m)
       => /\ last'.sent = <<MethodNotFound(m.data.id, m.data.method)>>
          /\ InFlight(peer(m.to), "rpc-response", m.data.id)' =
               {[to |-> peer(m.to), data |-> MethodNotFound(m.data.id, m.data.method)]}
          /\ last'.handlerCalls = <<>>
          /\ running' = running /\ handled' = handled
          /\ last'.onError = <<>> /\ ~last'.uncaught
          /\ inst' = inst /\ calls' = calls]_vars

\* A call for a method nobody registered has just been answered.
C14_Witness ==
  /\ last.op = "deliver" /\ last.type = "rpc-call"
  /\ \A m \in Methods : inst[last.to].handlers[m] = "none"
  /\ \A i \in Ids : handled[i].h = "none"
  /\ last.sent = <<MethodNotFound(last.id, "add")>>
  /\ InFlight(peer(last.to), "rpc-response", last.id) # {}
  /\ Pending(last.id)

(***************************************************************************)
(* C15.  A request that passes the checks of a Communicator constructed    *)
(* without onRequest is answered with exactly one response carrying the id *)
(* of the request, success = false and the error 'No request handler       *)
(* configured'; neither onMessage nor onError is invoked.                  *)
(***************************************************************************)
NoRequestHandler(id) ==
  Envelope("response", id, UNDEF, UNDEF, <<>>, FALSE, UNDEF, "No request handler configured", 0)

\* The step delivered request m to a listening Communicator without onRequest.
UnhandledRequestArrives(m) ==
  /\ m \in net /\ m \notin net'
  /\ m.data.type = "request"
  /\ last'.op = "deliver" /\ last'.to = m.to /\ last'.id = m.data.id
  /\ inst[m.to].listening
  /\ ~inst[m.to].options.onRequest

C15_NoOnRequestAnswersFailure ==
  [][\A m \in net :
       UnhandledRequestArrives(m)
       => /\ last'.sent = <<NoRequestHandler(m.data.id)>>
          /\ InFlight(peer(m.to), "response", m.data.id)' =
               {[to |-> peer(m.to), data |-> NoRequestHandler(m.data.id)]}
          /\ last'.onMessage = <<>> /\ last'.onError = <<>> /\ ~last'.uncaught
          /\ last'.handlerCalls = <<>>
          /\ running' = running /\ handled' = handled
          /\ inst' = inst /\ calls' = calls]_vars

\* A request has just been answered by a Communicator without onRequest, and
\* the requester is waiting for the answer.
C15_Witness ==
  /\ layer = "comm"
  /\ last.op = "deliver" /\ last.type = "request"
  /\ ~inst[last.to].options.onRequest
  /\ last.sent = <<NoRequestHandler(last.id)>>
  /\ InFlight(peer(last.to), "response", last.id) # {}
  /\ Pending(last.id)

(***************************************************************************)
(* C16.  send(P) posts one 'message' envelope carrying P and creates no    *)
(* pending entry, promise or timer; when that envelope is delivered and    *)
(* passes the checks of the peer's listener, the peer's onMessage is       *)
(* invoked exactly once, with the payload of the envelope, and no response *)
(* is posted and no pending entry created on either side.                  *)
(***************************************************************************)

\* The envelope send(payload) posts as the n-th message of the run.
MessageEnvelope(payload, n) ==
  Envelope("message", 0, payload, UNDEF, <<>>, FALSE, UNDEF, UNDEF, n)

\* The step was a send().
Sends == nmsg' = nmsg + 1

\* The step delivered message m to a listening instance.
MessageArrives(m) ==
  /\ m \in net /\ m \notin net'
  /\ m.data.type = "message"
  /\ last'.op = "deliver" /\ last'.to = m.to
  /\ inst[m.to].listening

C16_SendIsOneWay ==
  [][/\ Sends =>
          /\ last'.sent \in {<<>>, <<MessageEnvelope(payloadOf(nextId), nmsg')>>}
          /\ net' \subseteq net \cup {[to |-> s, data |-> MessageEnvelope(payloadOf(nextId), nmsg')] :
                                        s \in Sides}
          /\ inst' = inst /\ calls' = calls /\ running' = running /\ handled' = handled
          /\ last'.onMessage = <<>> /\ last'.handlerCalls = <<>>
     /\ \A m \in net :
          MessageArrives(m)
          => /\ last'.onMessage = <<[arg |-> "payload", data |-> m.data]>>
             /\ net' = net \ {m}
             /\ last'.sent = <<>>
             /\ last'.handlerCalls = <<>> /\ last'.onError = <<>> /\ ~last'.uncaught
             /\ inst' = inst /\ calls' = calls
             /\ running' = running /\ handled' = handled]_vars

\* The second of two messages sent has just reached onMessage of the peer,
\* with its own payload.
C16_Witness ==
  /\ nmsg = 2
  /\ last.op = "deliver" /\ last.type = "message"
  /\ last.onMessage = <<[arg |-> "payload", data |-> MessageEnvelope("p2", 2)]>>
  /\ last.sent = <<>>
  /\ \A s \in Sides, id \in Ids : inst[s].pending[id] = 0

(***************************************************************************)
(* C17.  Every request or rpc-call that passes the checks of the listener  *)
(* is answered with exactly one response envelope carrying its id: at once *)
(* when no handler is configured, otherwise when the handler completes,    *)
(* with success and the value the handler returned or resolved to, or with *)
(* failure and the message of the Error it threw or rejected with, or the  *)
(* generic 'Unknown error' when what it threw is not an Error.  Nothing    *)
(* the handler throws escapes the dispatcher or reaches onError, and the   *)
(* instance is left as it was, so later envelopes are dispatched as before.*)
(***************************************************************************)

\* The response to id that succeeds with the value of out when the handler
\* returned and fails with the error err otherwise.
ResponseWith(id, out, err) ==
  LET ok == out.kind = "return"
  IN IF layer = "comm"
     THEN Envelope("response", id, IF ok THEN out.v ELSE UNDEF, UNDEF, <<>>, ok, UNDEF,
                   IF ok THEN UNDEF ELSE err, 0)
     ELSE Envelope("rpc-response", id, UNDEF, UNDEF, <<>>, ok, IF ok THEN out.v ELSE UNDEF,
                   IF ok THEN UNDEF ELSE err, 0)

\* error instanceof Error ? error.message : 'Unknown error'
ResponseTo(id, out) ==
  ResponseWith(id, out, IF out.kind = "throwError" THEN out.message ELSE "Unknown error")

\* The failure always carries the message property of what was thrown
\* (undefined on a value that is not an Error).
ResponseWithMessage(id, out) == ResponseWith(id, out, out.message)

\* Response envelopes with the given id posted to window s so far (a
\* response stays in flight once posted).
Responses(s, id) == {m \in net : m.to = s /\ IsResponse(m.data) /\ m.data.id = id}

\* The step delivered request or rpc-call m to a listening instance.
InboundArrives(m) ==
  /\ m \in net /\ m \notin net'
  /\ m.data.type \in {"request", "rpc-call"}
  /\ last'.op = "deliver" /\ last'.to = m.to /\ last'.id = m.data.id
  /\ inst[m.to].listening

\* Every step answers as C17 says, Response(id, out) being the envelope due
\* when the handler serving id produced out.
AnsweredOnce(Response(_, _)) ==
  /\ \A m \in net :
       InboundArrives(m)
       => /\ Responses(peer(m.to), m.data.id) = {}
          /\ \/ /\ \E r \in running' \ running : r.side = m.to /\ r.id = m.data.id
                /\ Cardinality(running' \ running) = 1
                /\ last'.sent = <<>>
                /\ Responses(peer(m.to), m.data.id)' = {}
             \/ /\ running' = running
                /\ Len(last'.sent) = 1
                /\ ~last'.sent[1].success
                /\ Responses(peer(m.to), m.data.id)' =
                     {[to |-> peer(m.to), data |-> last'.sent[1]]}
          /\ ~last'.uncaught /\ last'.onError = <<>>
  /\ \A r \in running :
       r \notin running'
       => /\ running' = running \ {r}
          /\ Responses(peer(r.side), r.id) = {}
          /\ last'.sent = <<Response(r.id, handled'[r.id].out)>>
          /\ Responses(peer(r.side), r.id)' =
               {[to |-> peer(r.side), data |-> Response(r.id, handled'[r.id].out)]}
          /\ ~last'.uncaught /\ last'.onError = <<>>
          /\ inst' = inst /\ calls' = calls
  /\ \A s \in Sides, id \in Ids : Responses(s, id) # {} => Responses(s, id)' = Responses(s, id)

C17_ExactlyOneResponse == [][AnsweredOnce(ResponseTo)]_vars

\* C17 as stated: the failure response carries the message of whatever the
\* handler threw.
C17_AlwaysTheMessage == [][AnsweredOnce(ResponseWithMessage)]_vars

\* The handler serving the first call threw a value that is not an Error and
\* the failure response 'Unknown error' was posted; the second call was then
\* dispatched to the handler, which returned, and has just been answered.
C17_Witness ==
  /\ handled[1].out.kind = "throwOther"
  /\ handled[2].out.kind = "return"
  /\ \E s \in Sides :
       /\ Responses(s, 1) = {[to |-> s, data |-> ResponseTo(1, handled[1].out)]}
       /\ Responses(s, 2) = {[to |-> s, data |-> ResponseTo(2, handled[2].out)]}
       /\ inst[peer(s)].listening
  /\ last.sent = <<ResponseTo(2, handled[2].out)>>

(***************************************************************************)
(* C18.  With a Communicator and an RPC instance on one channel, an        *)
(* rpc-call or rpc-response envelope invokes neither onMessage nor         *)
(* onRequest of the Communicator and settles none of its requests, and a   *)
(* message, request or response envelope invokes no RPC handler and        *)
(* settles no RPC call.                                                    *)
(***************************************************************************)

\* C18 as stated.
C18_NoCrossDispatch ==
  [][last'.op = "overhear"
     => /\ calls' = calls /\ inst' = inst
        /\ last'.handlerCalls = <<>> /\ running' = running /\ handled' = handled
        /\ layer = "comm" => last'.onMessage = <<>>]_vars

\* The part that holds: the RPC classes ignore message, request and response
\* envelopes but for the onMessage tap of the listener, and the Communicator
\* runs no onRequest and settles nothing for an rpc envelope.
C18_NoCrossSettlement ==
  [][last'.op = "overhear"
     => /\ calls' = calls /\ inst' = inst
        /\ last'.handlerCalls = <<>> /\ running' = running /\ handled' = handled
        /\ last'.sent = <<>> /\ net' = net]_vars

\* An rpc-response carrying the id of a pending request reached a listening
\* Communicator: onMessage was invoked for it (with the payload field the
\* envelope does not have), the request is still pending.
C18_Witness ==
  /\ layer = "comm"
  /\ last.op = "overhear" /\ last.type = "rpc-response"
  /\ Len(last.onMessage) = 1
  /\ last.onMessage[1].arg = "payload"
  /\ last.onMessage[1].data.type = "rpc-response"
  /\ last.onMessage[1].data.payload = UNDEF
  /\ Pending(last.id) /\ calls[last.id].owner = last.to

(***************************************************************************)
(* C19.  The timer of a request or call runs for the per-call timeout when *)
(* one is given, otherwise for the timeout given to the constructor of the *)
(* instance, otherwise for 5000 ms; for request() of the Communicator      *)
(* classes and for call() / callWithOptions() of the RPC classes.          *)
(***************************************************************************)

\* The duration C19 gives call c.
TimeoutDue(c) ==
  IF calls[c].timeout # Undef THEN calls[c].timeout
  ELSE IF inst[calls[c].owner].given # Undef THEN inst[calls[c].owner].given
  ELSE DefaultTimeout

\* C19 as stated, for both layers.
C19_TimeoutPrecedence ==
  \A c \in Ids : calls[c].state # "none" => calls[c].dur = TimeoutDue(c)

\* The part that holds: request() of the Communicator classes follows the
\* precedence; callWithOptions() uses the per-call timeout or 5000 ms.
C19_RequestPrecedence ==
  \A c \in Ids :
    calls[c].state # "none"
    => calls[c].dur = IF layer = "comm" THEN TimeoutDue(c)
                      ELSE IF calls[c].timeout # Undef THEN calls[c].timeout
                      ELSE DefaultTimeout

\* A call issued without a per-call timeout on an RPC instance constructed
\* with a timeout of 3 ms: its timer was set for 5000 ms and the call is
\* still pending after the 3 ms.
C19_Witness ==
  \E c \in Ids :
    /\ layer = "rpc"
    /\ Pending(c) /\ calls[c].timer
    /\ inst[calls[c].owner].given = 3
    /\ calls[c].timeout = Undef
    /\ calls[c].dur = DefaultTimeout
    /\ now > calls[c].issuedAt + 3

(***************************************************************************)
(* C20.  The failure destroy() rejects a pending promise with differs, as  *)
(* a value the caller can inspect (class, message, code), from the failure *)
(* of a timeout and from the failure built from a peer's failure response, *)
(* whatever error string the peer put in that response.                    *)
(***************************************************************************)
RejectedBy(c, cause) == calls[c].state = "rejected" /\ calls[c].cause = cause

\* C20 as stated.
C20_DestroyDistinguishable ==
  \A c, d \in Ids :
    RejectedBy(c, "destroy") /\ (RejectedBy(d, "timeout") \/ RejectedBy(d, "response"))
    => calls[c].value # calls[d].value

\* The part that holds: the destroy failure differs from the timeout failure,
\* and from the failure of a response unless the peer's error string is the
\* message of the destroy failure.
C20_DistinctUnlessMimicked ==
  \A c, d \in Ids :
    RejectedBy(c, "destroy")
    => /\ RejectedBy(d, "timeout") => calls[c].value # calls[d].value
       /\ RejectedBy(d, "response") /\ handled[calls[d].id].out \notin MimicOutcomes
          => calls[c].value # calls[d].value

\* The first call was rejected by a failure response whose error string the
\* peer's handler chose, the second by destroy(): the two promises hold
\* equal failures.
C20_Witness ==
  /\ RejectedBy(1, "response")
  /\ handled[1].out \in MimicOutcomes
  /\ RejectedBy(2, "destroy")
  /\ calls[1].owner = calls[2].owner
  /\ calls[2].value = DestroyedFailure
  /\ calls[1].value = calls[2].value

(***************************************************************************)
(* C21.  destroy() is idempotent: called again on the instance it has just *)
(* destroyed it throws nothing, invokes no callback, posts nothing,        *)
(* changes no promise or timer, and leaves the listener, the pending table *)
(* and the handler registry as the first call left them.                   *)
(***************************************************************************)

\* destroy() of instance s in world w, of whichever classes the run uses.
destroyOf(w, s) == IF layer = "comm" THEN destroy(w, s) ELSE rpcDestroy(w, s)

\* destroy() of instance s, called in world w, changes nothing and has no
\* effect of its own.
DestroyChangesNothing(w, s) ==
  LET w2 == destroyOf([w EXCEPT !.fx = NoFx], s)
  IN /\ w2.inst = w.inst
     /\ w2.calls = w.calls
     /\ w2.net = w.net /\ w2.running = w.running /\ w2.handled = w.handled
     /\ w2.fx = NoFx

C21_DestroyIdempotent ==
  \A s \in Sides : DestroyChangesNothing(destroyOf(World("none"), s), s)

\* destroy() has rejected the two pending calls of an instance; a handler
\* the destroyed instance's peer invoked for the first is still running.
C21_Witness ==
  /\ \A c \in Ids : calls[c].cause = "destroy" /\ calls[c].value = DestroyedFailure
  /\ calls[1].owner = calls[2].owner
  /\ ~inst[calls[1].owner].listening
  /\ \A id \in Ids : inst[calls[1].owner].pending[id] = 0
  /\ \E r \in running : r.id = 1
  /\ DestroyChangesNothing(World("none"), calls[1].owner)

(***************************************************************************)
(* C22.  When generateId() returns an id that no outstanding call of the   *)
(* instance has, the call issued gets a table entry of its own under that  *)
(* id and the entry of every other outstanding call of the instance is     *)
(* left as it was.                                                         *)
(***************************************************************************)

\* Call d is outstanding at its instance: its promise is unsettled.
Outstanding(d) == Pending(d)

\* The step issued call c.
Issues(c) == calls[c].state = "none" /\ calls'[c].state # "none"

\* The id call c was issued with is the id of no call of the same instance
\* that was outstanding.
FreshId(c) ==
  \A d \in Ids \ {c} :
    Outstanding(d) /\ calls[d].owner = calls'[c].owner => calls[d].id # calls'[c].id

\* Issuing call c gave it an entry of its own and touched no other entry.
OwnEntry(c) ==
  LET s == calls'[c].owner
  IN /\ inst'[s].pending[calls'[c].id] = c
     /\ \A id \in Ids \ {calls'[c].id} : inst'[s].pending[id] = inst[s].pending[id]
     /\ inst'[peer(s)] = inst[peer(s)]
     /\ \A d \in Ids \ {c} : calls'[d] = calls[d]

C22_FreshIdOwnEntry == [][\A c \in Ids : Issues(c) /\ FreshId(c) => OwnEntry(c)]_vars

\* C22 as stated: the id of a call issued is always fresh, and so its entry
\* is its own.
C22_IdAlwaysFresh ==
  [][\A c \in Ids :
       Issues(c)
       => /\ FreshId(c)
          /\ \A d \in Ids \ {c} :
               Outstanding(d) /\ calls[d].owner = calls'[c].owner
               => inst'[calls[d].owner].pending[calls[d].id] = d]_vars

\* Two outstanding calls of one instance with different ids, each with its
\* own table entry and timer.
C22_Witness ==
  /\ Pending(1) /\ Pending(2)
  /\ calls[1].owner = calls[2].owner
  /\ calls[1].id = 2 /\ calls[2].id = 1
  /\ inst[calls[1].owner].pending[2] = 1
  /\ inst[calls[1].owner].pending[1] = 2
  /\ calls[1].timer /\ calls[2].timer

(***************************************************************************)
(* C23.  Constructing ChildCommunicator or ChildRPC in a window whose      *)
(* window.parent is absent or is the window itself throws an Error         *)
(* ('ChildCommunicator must be used inside an iframe' / 'ChildRPC must be  *)
(* used inside an iframe'), registers no listener and creates no instance: *)
(* an envelope posted to that window afterwards is handled by nothing and  *)
(* nothing is posted from it.                                              *)
(***************************************************************************)
NotInIframe ==
  Error(IF layer = "comm" THEN "ChildCommunicator must be used inside an iframe"
        ELSE "ChildRPC must be used inside an iframe")

\* The frame's window is not embedded.
TopLevel == ~Constructed(inst["child"]) /\ inst["child"].windowParent \in {"none", "child"}

C23_ConstructorFailsFast ==
  [][/\ last'.op = "construct" /\ TopLevel
        => /\ last'.uncaught /\ last'.thrown = NotInIframe
           /\ Untouched
           /\ ~inst'["child"].listening
     /\ last'.op = "construct" /\ ~TopLevel
        => /\ ~last'.uncaught
           /\ Constructed(inst'["child"]) /\ inst'["child"].listening
     /\ TopLevel
        => /\ TopLevel'
           /\ last'.op = "deliver" /\ last'.to = "child"
                => /\ inst' = inst /\ calls' = calls /\ running' = running
                   /\ Silent(last')
           /\ \A m \in net' \ net : m.to = "child"]_vars

\* The constructor has just thrown in a top-level window to which the host
\* had posted a request or call; the window still has no instance.
C23_Witness ==
  /\ last.op = "construct"
  /\ last.uncaught /\ last.thrown = NotInIframe
  /\ TopLevel
  /\ ~inst["child"].listening
  /\ \E m \in net : m.to = "child" /\ m.data.type \in {"request", "rpc-call"}

(***************************************************************************)
(* C24.  In every reachable state a call whose promise has settled (by a   *)
(* response, a timeout, an abort, a send failure or destroy()) has no      *)
(* timer scheduled and no entry in the pending table of its instance.      *)
(***************************************************************************)

\* Call c holds no timer and no table entry.
Released(c) ==
  /\ ~calls[c].timer
  /\ inst[calls[c].owner].pending[calls[c].id] # c

\* C24 as stated.
C24_SettledIsReleased == \A c \in Ids : Settled(c) => Released(c)

\* The part that holds: every way of settling but the send failure of the
\* RPC classes releases the timer and the entry.
C24_ReleasedUnlessSendFailure ==
  \A c \in Ids : Settled(c) /\ calls[c].cause # "send" => Released(c)

\* A call of the RPC classes rejected with SEND_ERROR because postMessage
\* threw: its timer is still scheduled and its entry still in the table.
C24_Witness ==
  \E c \in Ids :
    /\ layer = "rpc"
    /\ calls[c].state = "rejected" /\ calls[c].cause = "send"
    /\ calls[c].value.code = "SEND_ERROR"
    /\ calls[c].timer
    /\ inst[calls[c].owner].pending[calls[c].id] = c

(***************************************************************************)
(* C25.  While a handler an instance invoked for an inbound request or     *)
(* call A is awaiting, an envelope delivered to the instance is handled in *)
(* the step that delivers it: a request or call B reaches its handler (or  *)
(* is answered at once when there is none), a response settles the pending *)
(* call of the instance it matches, a message reaches onMessage.  A's      *)
(* handler keeps running through each of these, and the response to B may  *)
(* be posted before the response to A.                                     *)
(***************************************************************************)

\* A handler of instance s is awaiting.
Awaiting(s) == \E r \in running : r.side = s

\* The step delivered envelope m to a listening instance with a handler
\* awaiting.
ArrivesWhileAwaiting(m) ==
  /\ m \in net
  /\ last'.op = "deliver" /\ last'.to = m.to
  /\ last'.type = m.data.type /\ last'.id = m.data.id
  /\ IsResponse(m.data) \/ m \notin net'
  /\ inst[m.to].listening
  /\ Awaiting(m.to)

C25_SlowHandlerBlocksNothing ==
  [][/\ \A m \in net :
          ArrivesWhileAwaiting(m)
          => /\ running \subseteq running'
             /\ m.data.type \in {"request", "rpc-call"}
                => \/ \E r \in running' \ running : r.side = m.to /\ r.id = m.data.id
                   \/ Len(last'.sent) = 1 /\ last'.sent[1].id = m.data.id
             /\ \A c \in Ids :
                  (/\ IsResponse(m.data) /\ Pending(c)
                   /\ calls[c].owner = m.to /\ calls[c].id = m.data.id)
                  => /\ Settled(c)' /\ calls'[c].cause = "response"
                     /\ ~calls'[c].timer
             /\ m.data.type = "message"
                => last'.onMessage = <<[arg |-> "payload", data |-> m.data]>>
     /\ \A r \in running :
          r \notin running'
          => /\ running' = running \ {r}
             /\ Len(last'.sent) = 1 /\ last'.sent[1].id = r.id]_vars

\* The handler of a side is still awaiting for call 1 while the response to
\* call 2, which reached the same side later, has already been posted.
C25_Witness ==
  /\ \E r \in running : r.id = 1 /\ r.side = peer(calls[1].owner)
  /\ calls[2].owner = calls[1].owner
  /\ handled[2].out.kind = "return"
  /\ Responses(calls[2].owner, 2) # {}
  /\ Responses(calls[1].owner, 1) = {}

\* The handler of a side is awaiting for call 1 of its peer while the
\* response to the side's own call 2 has just settled that call.
C25_OwnCallSettles ==
  /\ \E r \in running : r.id = 1 /\ r.side = calls[2].owner
  /\ calls[2].state = "fulfilled"
  /\ last.op = "deliver" /\ IsResponse(last) /\ last.id = 2 /\ last.to = calls[2].owner

(***************************************************************************)
(* C26.  The registry maps a name to at most one handler, the one most     *)
(* recently registered for it and not unregistered since: register(n, h)   *)
(* makes h the handler of n whatever n had before, registerAll does so for *)
(* each of its entries, unregister(n) and unregisterAll() leave n without  *)
(* a handler, none of them touches another name, and an rpc-call for n is  *)
(* dispatched to the handler the registry holds for n, to it alone, and to *)
(* no handler when it holds none.                                          *)
(***************************************************************************)

\* In world w an rpc-call for m that reaches listening instance s runs
\* handler h and nothing else; with h = "none" it runs nothing and is
\* answered 'Method not found'.
DispatchesTo(w, s, m, h) ==
  /\ w.inst[s].handlers[m] = h
  /\ \A id \in Ids :
       LET w2 == dispatchEvent([w EXCEPT !.fx = NoFx], s, CallEvent(s, id, m), FALSE)
       IN IF h = "none"
          THEN w2.fx.handlerCalls = <<>> /\ w2.fx.sent = <<MethodNotFound(id, m)>>
          ELSE w2.fx.handlerCalls = <<[h |-> h, args |-> argsOf(id)]>> /\ w2.fx.sent = <<>>

\* What each registry operation of instance s, applied now, leaves.
RegistryOperations(s) ==
  LET W == World("none")
      old == inst[s].handlers
  IN /\ \A m \in Methods, h \in HandlerIds :
          /\ DispatchesTo(register(W, s, m, h), s, m, h)
          /\ \A n \in Methods \ {m} : DispatchesTo(register(W, s, m, h), s, n, old[n])
     /\ \A hm \in HandlerMaps(Methods, HandlerIds), n \in Methods :
          DispatchesTo(registerAll(W, s, hm), s, n, IF hm[n] # "none" THEN hm[n] ELSE old[n])
     /\ \A m \in Methods :
          /\ DispatchesTo(unregister(W, s, m), s, m, "none")
          /\ \A n \in Methods \ {m} : DispatchesTo(unregister(W, s, m), s, n, old[n])
     /\ \A n \in Methods : DispatchesTo(unregisterAll(W, s), s, n, "none")

C26_LastRegistrationWins ==
  [][/\ \A s \in Sides : layer = "rpc" /\ inst[s].listening => RegistryOperations(s)
     /\ \A m \in net :
          (/\ m \notin net' /\ m.data.type = "rpc-call"
           /\ last'.op = "deliver" /\ last'.to = m.to /\ last'.id = m.data.id
           /\ inst[m.to].listening)
          => LET h == inst[m.to].handlers[m.data.method]
             IN /\ inst' = inst
                /\ IF h = "none"
                   THEN last'.handlerCalls = <<>> /\ running' = running
                   ELSE /\ last'.handlerCalls = <<[h |-> h, args |-> m.data.args]>>
                        /\ handled'[m.data.id].h = h
                        /\ Cardinality(running' \ running) = 1]_vars

\* The first call was served by h1; the name was then registered again with
\* h2 and the second call for it has just been dispatched to h2.
C26_Witness ==
  /\ handled[1].h = "h1" /\ calls[1].method = "add"
  /\ handled[2].h = "h2" /\ calls[2].method = "add"
  /\ calls[1].owner = calls[2].owner
  /\ inst[peer(calls[2].owner)].handlers["add"] = "h2"
  /\ last.op = "deliver" /\ last.type = "rpc-call" /\ last.id = 2
  /\ last.handlerCalls = <<[h |-> "h2", args |-> argsOf(2)]>>

(***************************************************************************)
(* C27.  The snapshot of ChildDevTools is replaced as a whole by a refresh: *)
(* the step that serves a refresh leaves exactly the functions of the      *)
(* window whose name matches the pattern, and returns the listing of that; *)
(* the step that serves a list returns the listing of the snapshot as it   *)
(* was, the step that serves a call looks its target up in the snapshot as *)
(* it was, and neither changes the snapshot; the host's promise resolves   *)
(* with the listing that was returned.  No step other than a refresh and   *)
(* an expose changes the snapshot.                                         *)
(***************************************************************************)

\* The step delivered rpc-call m for a method of ChildDevTools to the frame.
DevToolsArrives(m, method) ==
  /\ InboundArrives(m)
  /\ m.to = "child"
  /\ m.data.method = method
  /\ inst["child"].handlers[method] = DevHandlers[method]

\* The snapshot a scan of window builds: its functions with a matching name.
SnapshotOf(window) ==
  [n \in Names |->
     IF window[n] \in Functions /\ (\E rest \in NameRests : n = "__" \o rest)
     THEN window[n] ELSE "none"]

C27_RefreshReplacesWhole ==
  [][/\ \A m \in net :
          /\ DevToolsArrives(m, "__devtools_refresh")
             => /\ dev'.exposedFunctions = SnapshotOf(dev.window)
                /\ dev'.returned[m.data.id] = infoList(SnapshotOf(dev.window), 1)
                /\ dev'.window = dev.window
          /\ DevToolsArrives(m, "__devtools_list")
             => /\ dev'.exposedFunctions = dev.exposedFunctions
                /\ dev'.returned[m.data.id] = infoList(dev.exposedFunctions, 1)
          /\ DevToolsArrives(m, "__devtools_call")
             => /\ dev'.exposedFunctions = dev.exposedFunctions
                /\ dev'.looked[m.data.id] =
                     IF m.data.args[1] \in Names THEN dev.exposedFunctions[m.data.args[1]]
                     ELSE "none"
     /\ dev'.exposedFunctions # dev.exposedFunctions
        => \/ last'.op = "expose"
           \/ \E m \in net : DevToolsArrives(m, "__devtools_refresh")
     /\ \A c \in Ids :
          (/\ calls'[c].method \in {"__devtools_list", "__devtools_refresh"}
           /\ calls'[c].state = "fulfilled")
          => calls'[c].value = Value(dev'.returned[calls'[c].id])]_vars

\* A list was served from a snapshot holding a scanned and an exposed
\* function; the scanned one was deleted since, and the refresh just served
\* returned an empty listing and left an empty snapshot.
C27_Witness ==
  /\ handled[1].h = "listFunctions" /\ dev.returned[1] = "__a:f1;plain:f2;"
  /\ last.op = "deliver" /\ last.id = 2 /\ handled[2].h = "refreshFunctions"
  /\ dev.returned[2] = ""
  /\ dev.window = [n \in Names |-> IF n = "plain" THEN "f2" ELSE "absent"]
  /\ \A n \in Names : dev.exposedFunctions[n] = "none"
  /\ calls[1].state = "fulfilled" /\ calls[1].value = Value("__a:f1;plain:f2;")

(***************************************************************************)
(* C28.  A callFunction of the host that the frame answered is settled by  *)
(* what the frame found: rejected with 'Function not found: <name>' when   *)
(* the snapshot had no entry for the name, rejected with 'Error calling    *)
(* <name>: <message>' when the function found threw an Error with that     *)
(* message (with the text of the thrown value when it is no Error), and    *)
(* fulfilled with the function's result otherwise.  The step in which      *)
(* callFunction settles posts one response, lets nothing escape and leaves *)
(* the ChildRPC, its four handlers and the snapshot as they were.          *)
(***************************************************************************)
CallFunctionAnswered(c) ==
  /\ calls[c].method = "__devtools_call"
  /\ Settled(c) /\ calls[c].cause = "response"

CallFunctionSettlement(c) ==
  LET name == calls[c].args[1]
      did == dev.target[calls[c].id]
  IN IF dev.looked[calls[c].id] = "none"
     THEN /\ calls[c].state = "rejected"
          /\ calls[c].value = RPCError("Function not found: " \o name, UNDEF)
     ELSE CASE did.kind = "return" ->
                 calls[c].state = "fulfilled" /\ calls[c].value = Value(did.v)
            [] did.kind = "throwError" ->
                 /\ calls[c].state = "rejected"
                 /\ calls[c].value =
                      RPCError("Error calling " \o name \o ": " \o did.message, UNDEF)
            [] OTHER ->
                 /\ calls[c].state = "rejected"
                 /\ calls[c].value = RPCError("Error calling " \o name \o ": oops", UNDEF)

C28_CallFunctionFailuresReported ==
  [][/\ \A c \in Ids : CallFunctionAnswered(c)' => CallFunctionSettlement(c)'
     /\ \A r \in running \ running' :
          r.h = "callFunction"
          => /\ Len(last'.sent) = 1
             /\ last'.sent[1].type = "rpc-response" /\ last'.sent[1].id = r.id
             /\ ~last'.uncaught
             /\ inst'["child"] = inst["child"]
             /\ inst["child"].listening
             /\ \A m \in DevMethods : inst["child"].handlers[m] = DevHandlers[m]
             /\ dev'.exposedFunctions = dev.exposedFunctions]_vars

\* The first call found a function that threw Error('boom'); the host's
\* promise is rejected with the wrapped message.  The frame then served a
\* second call, for a name its snapshot lacks, and the host has just got the
\* rejection naming it.
C28_Witness ==
  /\ CallFunctionAnswered(1) /\ calls[1].args[1] = "__a"
  /\ dev.looked[1] = "f1" /\ dev.target[1].kind = "throwError"
  /\ calls[1].value = RPCError("Error calling __a: boom", UNDEF)
  /\ CallFunctionAnswered(2) /\ calls[2].args[1] = "plain"
  /\ dev.looked[2] = "none"
  /\ calls[2].value = RPCError("Function not found: plain", UNDEF)
  /\ last.op = "deliver" /\ last.type = "rpc-response" /\ last.id = 2

(***************************************************************************)
(* C29.  In every reachable state, expose(name, fn) for any name of the    *)
(* window, matching the pattern or not, and any function leaves fn under   *)
(* name in the snapshot and in the window and every other entry as it was; *)
(* an rpc-call '__devtools_call' for name that reaches the frame in the    *)
(* state expose left runs callFunction, which finds and invokes fn.        *)
(***************************************************************************)
CallFunctionEvent(id, name) ==
  MessageEvent(originOf("parent"), "parent",
               Envelope("rpc-call", id, UNDEF, "__devtools_call", <<name, "a">>,
                        FALSE, UNDEF, UNDEF, 0))

\* A call for name that reaches the frame in world w invokes fn.
InvokesIn(w, name, fn) ==
  \A id \in Ids :
    LET w2 == dispatchEvent([w EXCEPT !.fx = NoFx], "child", CallFunctionEvent(id, name), FALSE)
    IN /\ w2.fx.handlerCalls = <<[h |-> "callFunction", args |-> <<name, "a">>]>>
       /\ w2.dev.looked[id] = fn
       /\ w2.dev.exposedFunctions = w.dev.exposedFunctions
       /\ w2.fx.sent = <<>> /\ ~w2.fx.uncaught

C29_ExposedIsCallable ==
  \A name \in Names, fn \in Functions :
    LET w == expose(World("none"), name, fn)
    IN /\ w.dev.exposedFunctions[name] = fn
       /\ w.dev.window[name] = fn
       /\ \A n \in Names \ {name} :
            /\ w.dev.exposedFunctions[n] = dev.exposedFunctions[n]
            /\ w.dev.window[n] = dev.window[n]
       /\ w.inst = inst /\ w.calls = calls /\ w.net = net /\ w.running = running
       /\ InvokesIn(w, name, fn)

\* f2 was exposed under 'plain', which does not match the pattern; the
\* host's call for 'plain' found f2 and is fulfilled with what f2 returned.
C29_Witness ==
  /\ dev.exposedFunctions["plain"] = "f2" /\ dev.window["plain"] = "f2"
  /\ calls[1].method = "__devtools_call" /\ calls[1].args[1] = "plain"
  /\ dev.looked[1] = "f2" /\ dev.target[1].kind = "return"
  /\ calls[1].state = "fulfilled" /\ calls[1].value = Value(dev.target[1].v)
  /\ last.op = "deliver" /\ last.type = "rpc-response" /\ last.id = 1

(***************************************************************************)
(* C30.  For a descriptor with a name, both bounds and no step or a        *)
(* positive one, validateParamMeta succeeds exactly when min < max if the  *)
(* type is 'range' and exactly when min <= max if the type is 'number'; it *)
(* returns the descriptor as data on success and errors otherwise.  A      *)
(* 'range' from 100 to 0 is rejected, one from 0 to 100 is accepted.       *)
(***************************************************************************)
Validated == validation.result.returned

WithBounds(param) ==
  /\ param.name # ""
  /\ param.min # {} /\ param.max # {}
  /\ \A n \in param.step : n > 0

Volume(type, min, max) ==
  [name |-> "volume", type |-> type, min |-> {min}, max |-> {max}, step |-> {}]

C30_BoundsOrdered ==
  /\ (Validated /\ WithBounds(validation.param))
     => LET param == validation.param
            result == validation.result
        IN /\ param.type = "range"
              => (result.success <=> \A a \in param.min, b \in param.max : a < b)
           /\ param.type = "number"
              => (result.success <=> \A a \in param.min, b \in param.max : a <= b)
           /\ result.success => result.data = param /\ ~result.errors
           /\ ~result.success => result.errors
  /\ ~validateParamMeta(Volume("range", 100, 0)).success
  /\ validateParamMeta(Volume("range", 0, 100)).success

\* The validator has rejected a 'range' whose bounds are equal; the same
\* bounds are accepted for a 'number'.
C30_Witness ==
  /\ Validated
  /\ validation.param = Volume("range", 100, 100)
  /\ ~validation.result.success /\ validation.result.errors
  /\ validateParamMeta(Volume("number", 100, 100)).success

(***************************************************************************)
(* C31.  A response or rpc-response that passes the checks of a listening  *)
(* instance whose pending table has no entry for its id changes no table,  *)
(* timer or promise, posts nothing and invokes neither onMessage nor        *)
(* onError.                                                                *)
(***************************************************************************)

\* The step delivered a response to a listening instance that has no entry
\* for its id.
UnknownResponseArrives ==
  /\ last'.op = "deliver"
  /\ IsResponse(last')
  /\ inst[last'.to].listening
  /\ inst[last'.to].pending[last'.id] = 0

C31_UnknownIdIsSilent ==
  [][UnknownResponseArrives => Untouched /\ Silent(last')]_vars

\* What holds of the code: nothing changes and nothing is posted or raised;
\* the listener of the RPC classes still hands the envelope to onMessage.
C31_UnknownIdChangesNothing ==
  [][UnknownResponseArrives
       => /\ NoOp
          /\ layer = "rpc" => Len(last'.onMessage) = 1 /\ last'.onMessage[1].arg = "data"]_vars

\* The call of an RPC instance timed out; its rpc-response arrived after
\* that and was handed to onMessage.
C31_Witness ==
  /\ layer = "rpc"
  /\ last.op = "deliver" /\ IsResponse(last)
  /\ inst[last.to].listening
  /\ inst[last.to].pending[last.id] = 0
  /\ calls[last.id].owner = last.to /\ calls[last.id].cause = "timeout"
  /\ Len(last.onMessage) = 1 /\ last.onMessage[1].data.id = last.id

(***************************************************************************)
(* C32.  On the Communicator classes, in every reachable state: a send(P)  *)
(* whose postMessage throws, and a response (of a handler that completes,  *)
(* or the one sent at once when no onRequest is configured) whose          *)
(* postMessage throws, lets nothing escape to the caller, invokes onError  *)
(* once with the error thrown, posts nothing and leaves the instances      *)
(* (listener and pending table), the promises and their timers unchanged.  *)
(***************************************************************************)

\* World w is the current state but for the invocations in progress, which
\* are run, with the error reported once to onError and nothing else done.
ReportedIn(w, run) ==
  /\ w.fx.onError = <<Error("postMessage failed")>>
  /\ ~w.fx.uncaught
  /\ w.fx.sent = <<>> /\ w.fx.onMessage = <<>>
  /\ w.inst = inst /\ w.calls = calls /\ w.net = net
  /\ w.running = run

C32_SendFailureReported ==
  layer = "comm"
  => /\ \A s \in Sides, p \in Payloads :
          ReportedIn(send(World("none"), s, p, TRUE), running)
     /\ \A r \in running, out \in Outcomes :
          ReportedIn(handleRequestResume(World("none"), r, out, TRUE), running \ {r})
     /\ \A m \in net :
          (/\ m.data.type = "request"
           /\ inst[m.to].listening
           /\ ~inst[m.to].options.onRequest)
          => ReportedIn(dispatchEvent(World("none"), m.to, eventOf(m), TRUE), running)

\* onRequest returned for a request that is still pending on the other
\* side; the postMessage of its response threw, onError got the error and
\* no response is in flight.
C32_Witness ==
  /\ layer = "comm"
  /\ last.onError = <<Error("postMessage failed")>>
  /\ last.sent = <<>> /\ ~last.uncaught
  /\ \E c \in Ids :
       /\ Pending(c)
       /\ inst[calls[c].owner].pending[calls[c].id] = c
       /\ handled[calls[c].id].out.kind = "return"
       /\ Responses(calls[c].owner, calls[c].id) = {}
       /\ inst[peer(calls[c].owner)].listening
       /\ running = {}

(***************************************************************************)
(* C33.  A promise rejected by the failure response of a handler that      *)
(* threw a value with no message carries a generic message: 'Unknown       *)
(* error' when the value is no Error, 'Request failed' (request) or 'RPC   *)
(* call failed' (call) when it is an Error with an empty message.  No      *)
(* rejected promise carries an empty or undefined message.                 *)
(***************************************************************************)

\* The handler serving call c threw a value that carries no message, and
\* the failure response rejected the promise.
RejectedWithoutMessage(c) ==
  /\ calls[c].state = "rejected" /\ calls[c].cause = "response"
  /\ \/ handled[calls[c].id].out.kind = "throwOther"
     \/ /\ handled[calls[c].id].out.kind = "throwError"
        /\ handled[calls[c].id].out.message = ""

C33_GenericFallback ==
  /\ \A c \in Ids :
       RejectedWithoutMessage(c)
       => /\ calls[c].value.tag = "error"
          /\ calls[c].value.message =
               IF handled[calls[c].id].out.kind = "throwOther" THEN "Unknown error"
               ELSE IF layer = "comm" THEN "Request failed" ELSE "RPC call failed"
  /\ \A c \in Ids :
       calls[c].state = "rejected" => calls[c].value.message \notin {"", UNDEF}

\* An RPC handler threw an Error with an empty message and the caller's
\* promise is rejected with 'RPC call failed'.
C33_Witness ==
  \E c \in Ids :
    /\ layer = "rpc"
    /\ RejectedWithoutMessage(c)
    /\ handled[calls[c].id].out = [kind |-> "throwError", v |-> UNDEF, message |-> ""]
    /\ calls[c].value = RPCError("RPC call failed", UNDEF)
    /\ last.op = "deliver" /\ last.id = calls[c].id /\ IsResponse(last)

(***************************************************************************)
(* C34.  A rejected RPC call carries an RPCError whose code is fixed by    *)
(* what rejected it: TIMEOUT for the timer, ABORTED for an abort,          *)
(* SEND_ERROR for a postMessage that threw, and no code for a failure      *)
(* response or destroy(), whatever text the failure response carries.      *)
(***************************************************************************)
CodeOf(cause) ==
  CASE cause = "timeout" -> "TIMEOUT"
    [] cause = "abort" -> "ABORTED"
    [] cause = "send" -> "SEND_ERROR"
    [] OTHER -> UNDEF

C34_CodeTellsCause ==
  layer = "rpc"
  => \A c \in Ids :
       calls[c].state = "rejected"
       => /\ calls[c].cause \in {"timeout", "abort", "send", "response", "destroy"}
          /\ calls[c].value.name = "RPCError"
          /\ calls[c].value.code = CodeOf(calls[c].cause)

\* One call timed out; the other was rejected by a failure response whose
\* text is that of a timeout, and carries no code.
C34_Witness ==
  /\ layer = "rpc"
  /\ \E c, d \in Ids :
       /\ calls[c].state = "rejected" /\ calls[c].cause = "timeout"
       /\ calls[c].value.code = "TIMEOUT"
       /\ calls[d].state = "rejected" /\ calls[d].cause = "response"
       /\ calls[d].value.message = "RPC call timeout"
       /\ calls[d].value.code = UNDEF

(***************************************************************************)
(* C35.  In the state the serving of a refresh leaves, the snapshot holds  *)
(* under each name the function the window holds under it when the name    *)
(* matches the configured pattern (here: begins with '__'), and has no     *)
(* entry for any other name or for a value that is no function.            *)
(***************************************************************************)
BeginsWithPrefix(n) == \E rest \in NameRests : n = "__" \o rest

RefreshedExactly ==
  \A m \in net :
    DevToolsArrives(m, "__devtools_refresh")
    => \A n \in Names :
         dev'.exposedFunctions[n] =
           IF dev'.window[n] \in Functions /\ BeginsWithPrefix(n) THEN dev'.window[n]
           ELSE "none"

C35_SnapshotIsMatchingFunctions == [][RefreshedExactly]_vars

\* What holds of the code: the snapshot is exact when the pattern is the
\* default one.
C35_ExactWithDefaultPattern == [][dev.functionPattern = UNDEF => RefreshedExactly]_vars

\* A ChildDevTools constructed with /^__/g has just served a refresh; the
\* window holds functions under '__a' and '__b', the snapshot holds the first
\* and has no entry for the second.
C35_Witness ==
  /\ dev.functionPattern = "/^__/g"
  /\ last.op = "deliver" /\ last.type = "rpc-call"
  /\ handled[last.id].h = "refreshFunctions"
  /\ dev.window["__a"] \in Functions /\ dev.window["__b"] \in Functions
  /\ dev.exposedFunctions["__a"] = dev.window["__a"]
  /\ dev.exposedFunctions["__b"] = "none"

(***************************************************************************)
(* C36.  The step that serves a refresh leaves no entry in the snapshot    *)
(* under a name that does not match the pattern, and only an expose puts   *)
(* such an entry back; a call for a name the snapshot lacks looks up       *)
(* nothing and is rejected with 'Function not found: <name>'.  An entry    *)
(* under a matching name whose function the window still holds is in the   *)
(* snapshot after every refresh.                                           *)
(***************************************************************************)
\* The refresh served in this step drops the entries under other names.
NonMatchingDropped ==
  /\ \A m \in net :
       DevToolsArrives(m, "__devtools_refresh")
       => \A n \in Names : ~BeginsWithPrefix(n) => dev'.exposedFunctions[n] = "none"
  /\ \A n \in Names :
       (~BeginsWithPrefix(n) /\ dev.exposedFunctions[n] = "none"
          /\ dev'.exposedFunctions[n] # "none")
       => last'.op = "expose"
  /\ \A m \in net :
       (DevToolsArrives(m, "__devtools_call") /\ m.data.args[1] \in Names
          /\ dev.exposedFunctions[m.data.args[1]] = "none")
       => dev'.looked[m.data.id] = "none"
  /\ \A c \in Ids :
       (CallFunctionAnswered(c)' /\ dev'.looked[calls'[c].id] = "none")
       => /\ calls'[c].state = "rejected"
          /\ calls'[c].value = RPCError("Function not found: " \o calls'[c].args[1], UNDEF)

\* The refresh served in this step keeps the entries under matching names.
MatchingKept ==
  \A m \in net :
    DevToolsArrives(m, "__devtools_refresh")
    => \A n \in Names :
         (/\ BeginsWithPrefix(n)
          /\ dev.exposedFunctions[n] \in Functions
          /\ dev.window[n] = dev.exposedFunctions[n])
         => dev'.exposedFunctions[n] = dev.exposedFunctions[n]

C36_RefreshKeepsMatchingOnly == [][NonMatchingDropped /\ MatchingKept]_vars

\* What holds of the code: the entries under other names are dropped
\* whatever the pattern object, and those under matching names are kept
\* when the pattern is the default one.
C36_NonMatchingDropped == [][NonMatchingDropped]_vars

C36_MatchingKeptWithDefaultPattern ==
  [][dev.functionPattern = UNDEF => MatchingKept]_vars

\* A ChildDevTools constructed with /^__/g: f2 was exposed under '__b' while
\* the window held a function under '__a'; the window still holds f2 under
\* '__b', a refresh was served, and the host's call of '__b' has just been
\* rejected because the snapshot has no entry for it.
C36_Witness ==
  /\ dev.functionPattern = "/^__/g"
  /\ dev.window["__a"] = "f1" /\ dev.window["__b"] = "f2"
  /\ dev.exposedFunctions["__a"] = "f1" /\ dev.exposedFunctions["__b"] = "none"
  /\ \E c \in Ids :
       /\ CallFunctionAnswered(c) /\ calls[c].args[1] = "__b"
       /\ dev.looked[calls[c].id] = "none"
       /\ calls[c].value = RPCError("Function not found: __b", UNDEF)
       /\ last.op = "deliver" /\ last.type = "rpc-response" /\ last.id = calls[c].id
  /\ \E d \in Ids : calls[d].method = "__devtools_refresh" /\ calls[d].state = "fulfilled"

(***************************************************************************)
(* C37.  A request or call issued by a destroyed instance is recorded in   *)
(* the pending table with a timer and, unless postMessage throws, posted   *)
(* to the peer.  A response that arrives for it changes nothing.  It ends  *)
(* by its timeout, by the abort of its signal or by a further destroy() of *)
(* the instance, and its table entry and timer are gone when it does; an   *)
(* rpc call whose postMessage throws is rejected at once with SEND_ERROR.  *)
(***************************************************************************)
\* Call c is issued in this step by an instance that was destroyed.
IssuedAfterDestroy(c) == Issues(c) /\ ~inst[calls'[c].owner].listening

\* Call c is pending and its instance is destroyed.
Lonely(c) == Pending(c) /\ ~inst[calls[c].owner].listening

\* What the step that issues call c after destroy() leaves.
RecordedAndSent(c) ==
  LET s == calls'[c].owner
      id == calls'[c].id
  IN /\ inst'[s].pending[id] = c
     /\ calls'[c].timer
     /\ \/ /\ calls'[c].state = "pending"
           /\ Len(last'.sent) = 1 => /\ last'.sent[1].id = id
                                     /\ last'.sent[1].type \in {"request", "rpc-call"}
                                     /\ [to |-> peer(s), data |-> last'.sent[1]] \in net'
           /\ last'.sent = <<>> => layer = "comm" /\ Len(last'.onError) = 1
        \/ /\ layer = "rpc"
           /\ calls'[c].state = "rejected" /\ calls'[c].cause = "send"
           /\ last'.sent = <<>>

\* The calls of a destroyed instance that are pending are those issued after
\* destroy(), and no delivery to the instance changes anything.
NoResponseSettles ==
  /\ \A c \in Ids : Lonely(c)' => Lonely(c) \/ IssuedAfterDestroy(c)
  /\ \A s \in Sides :
       (~inst[s].listening /\ last'.op = "deliver" /\ last'.to = s)
       => /\ calls' = calls /\ inst' = inst /\ running' = running
          /\ last'.sent = <<>> /\ last'.handlerCalls = <<>>

\* Call c, pending in a destroyed instance, ends in this step by one of the
\* given causes and leaves no table entry and no timer.
EndsOnlyBy(c, causes) ==
  (Lonely(c) /\ ~Pending(c)')
  => /\ calls'[c].state = "rejected"
     /\ calls'[c].cause \in causes
     /\ inst'[calls[c].owner].pending[calls[c].id] = 0
     /\ ~calls'[c].timer

\* C37 as stated: sent (when postMessage does not throw) and recorded,
\* ended by its timeout or abort only.
C37_OnlyTimeoutOrAbort ==
  [][\A c \in Ids :
       /\ (IssuedAfterDestroy(c) /\ Len(last'.sent) = 1) => RecordedAndSent(c)
       /\ EndsOnlyBy(c, {"timeout", "abort"})]_vars

\* C37 with the further ways in which such a call ends.
C37_LonelyCallEnds ==
  [][/\ NoResponseSettles
     /\ \A c \in Ids :
          /\ IssuedAfterDestroy(c) => RecordedAndSent(c)
          /\ EndsOnlyBy(c, {"timeout", "abort", "destroy"})]_vars

\* A call was issued by a destroyed instance and posted; the peer's response
\* for it has just arrived and the call is still pending with its timer.
C37_Witness ==
  \E c \in Ids :
    /\ Lonely(c) /\ calls[c].timer
    /\ inst[calls[c].owner].pending[calls[c].id] = c
    /\ last.op = "deliver" /\ IsResponse(last)
    /\ last.to = calls[c].owner /\ last.id = calls[c].id
    /\ last.onMessage = <<>> /\ last.onError = <<>>

(***************************************************************************)
(* C38.  destroy() leaves the handlers that are awaiting as they are, and  *)
(* a handler that completes posts its response whether or not its instance *)
(* has been destroyed since it was invoked: one envelope, carrying the id  *)
(* of the request or call, successful exactly when the handler returned.   *)
(***************************************************************************)
\* Instance s is destroyed in this step.
Destroyed(s) == inst[s].listening /\ ~inst'[s].listening

\* The suspended invocation r completes in this step and answers.
CompletesAndAnswers(r) ==
  /\ handled'[r.id].out # NoOutcome
  /\ Len(last'.sent) = 1
  /\ IsResponse(last'.sent[1])
  /\ last'.sent[1].id = r.id
  /\ last'.sent[1].success = (handled'[r.id].out.kind = "return")
  /\ [to |-> peer(r.side), data |-> last'.sent[1]] \in net'
  /\ ~last'.uncaught

C38_HandlerOutlivesDestroy ==
  [][/\ \A s \in Sides : Destroyed(s) => running' = running /\ last'.sent = <<>>
     /\ \A r \in running \ running' : CompletesAndAnswers(r)]_vars

\* The handler of a destroyed instance has just completed and its response
\* is on its way to the peer.
C38_Witness ==
  \E c \in Ids :
    /\ ~inst[peer(calls[c].owner)].listening
    /\ Len(last.sent) = 1 /\ IsResponse(last.sent[1])
    /\ last.sent[1].id = calls[c].id
    /\ handled[calls[c].id].out # NoOutcome
    /\ [to |-> calls[c].owner, data |-> last.sent[1]] \in net

(***************************************************************************)
(* C39.  A call issued with a signal that is already aborted is recorded   *)
(* and posted like any other call (rejected with SEND_ERROR when           *)
(* postMessage throws); it is never rejected as aborted, and what settles  *)
(* it is a response, its timeout or destroy().                             *)
(***************************************************************************)
\* Call c was given a signal that had been aborted before.
GivenAborted(c) == calls[c].signal = "aborted"

C39_AbortedSignalIgnored ==
  [][\A c \in Ids :
       GivenAborted(c)'
       => /\ Issues(c)
             => /\ inst'[calls'[c].owner].pending[calls'[c].id] = c
                /\ calls'[c].timer
                /\ \/ /\ Pending(c)'
                      /\ Len(last'.sent) = 1
                      /\ last'.sent[1].type = "rpc-call"
                      /\ last'.sent[1].id = calls'[c].id
                      /\ [to |-> peer(calls'[c].owner), data |-> last'.sent[1]] \in net'
                   \/ /\ calls'[c].cause = "send" /\ last'.sent = <<>>
          /\ (Pending(c) /\ ~Pending(c)')
             => calls'[c].cause \in {"response", "timeout", "destroy"}
          /\ calls'[c].cause # "abort"
          /\ calls'[c].value # AbortedFailure]_vars

\* A call given an aborted signal was posted, served and has just been
\* fulfilled by the peer's response.
C39_Witness ==
  \E c \in Ids :
    /\ GivenAborted(c)
    /\ calls[c].state = "fulfilled" /\ calls[c].cause = "response"
    /\ last.op = "deliver" /\ last.type = "rpc-response" /\ last.id = calls[c].id

(***************************************************************************)
(* C40.  An rpc-call that reaches a listening instance is dispatched to    *)
(* the handler its method has in the registry at that moment, and answered *)
(* 'Method not found' when it has none.  A step that changes the registry  *)
(* or destroys the instance leaves the suspended invocations as they are   *)
(* and posts nothing; when an invocation completes, the response carries   *)
(* the result of the handler it was dispatched to, whatever the registry   *)
(* holds by then.                                                          *)
(***************************************************************************)
\* The rpc-call m is dispatched in this step as the registry tells.
DispatchedAsRegistered(m) ==
  LET h == inst[m.to].handlers[m.data.method]
  IN IF h = "none"
     THEN /\ running' = running
          /\ last'.sent = <<MethodNotFound(m.data.id, m.data.method)>>
     ELSE /\ running' \ running =
               {[side |-> m.to, id |-> m.data.id, h |-> h, args |-> m.data.args]}
          /\ handled'[m.data.id].h = h
          /\ last'.sent = <<>>

\* The response of invocation r: the result of the handler r was dispatched
\* to.
ResponseOf(r) ==
  Envelope("rpc-response", r.id, UNDEF, UNDEF, <<>>, TRUE, returnOf(r.h, r.id), UNDEF, 0)

C40_HandlerFixedAtDispatch ==
  [][/\ \A m \in net : InboundArrives(m) => DispatchedAsRegistered(m)
     /\ \A s \in Sides :
          (inst'[s].handlers # inst[s].handlers \/ Destroyed(s))
          => running' = running /\ handled' = handled /\ last'.sent = <<>>
     /\ \A r \in running \ running' :
          /\ r.h = handled[r.id].h
          /\ last'.sent = <<ResponseOf(r)>>
          /\ [to |-> peer(r.side), data |-> ResponseOf(r)] \in net']_vars

\* A call for 'add' was dispatched to h1; while h1 was awaiting, the name was
\* registered again with h2; h1 has just completed and the response carries
\* its result.
C40_Witness ==
  \E c \in Ids :
    /\ handled[calls[c].id].h = "h1"
    /\ inst[peer(calls[c].owner)].handlers["add"] = "h2"
    /\ last.sent = <<ResponseOf([id |-> calls[c].id, h |-> "h1"])>>
    /\ last.op = "none"

\* The same when the instance was destroyed while h1 was awaiting: the
\* registry is empty and the response is not 'Method not found'.
C40_WitnessDestroyed ==
  \E c \in Ids :
    /\ handled[calls[c].id].h = "h1"
    /\ ~inst[peer(calls[c].owner)].listening
    /\ inst[peer(calls[c].owner)].handlers["add"] = "none"
    /\ last.sent = <<ResponseOf([id |-> calls[c].id, h |-> "h1"])>>

====
